---------------------------- MODULE Spec2Model ----------------------------
(***************************************************************************)
(* Filter chain engine of librashader (OpenGL runtime): framebuffers that  *)
(* back the pass outputs, the feedback ring and the history deque, the     *)
(* construction of a chain from a preset and the per-frame algorithm.      *)
(*                                                                         *)
(* Sequences are 1-based: pass i of the model is index i-1 of the code.    *)
(***************************************************************************)
EXTENDS Integers, Sequences, FiniteSets, TLC

(***************************************************************************)
(* Bounds of the model.                                                    *)
(***************************************************************************)
\* largest number of shader passes in a preset
MaxPasses == 2
\* largest OriginalHistory index a shader may reference
MaxHistoryIndex == 2
\* largest number of LUT textures in a preset
MaxLuts == 2
\* framebuffer allocations the GL refuses in one run (besides format 0)
MaxFaults == 1

(***************************************************************************)
(* Program constants.                                                      *)
(***************************************************************************)
\* gl::RGBA8
GL_RGBA8 == 32856
\* gl::SRGB8_ALPHA8, the GLenum of ImageFormat::R8G8B8A8Srgb
GL_SRGB8_ALPHA8 == 35907
\* depth of the per-pass UBO ring
UboRingSize == 16
\* u32::MAX as the mip level limit of a mipmapped image; it is only compared
\* with 1 and with mip level counts, which are at most 32
u32_MAX == 2147483647

\* helpers -----------------------------------------------------------------
Max(a, b) == IF a >= b THEN a ELSE b
Min(a, b) == IF a <= b THEN a ELSE b
Range(s) == {s[i] : i \in 1..Len(s)}
Size(w, h) == [width |-> w, height |-> h]

(***************************************************************************)
(* librashader_common: ImageFormat -> GLenum.  Unknown is 0.               *)
(***************************************************************************)
GLenumOf(format) ==
    CASE format = "Unknown"       -> 0
      [] format = "R8G8B8A8Unorm" -> GL_RGBA8
      [] format = "R8G8B8A8Srgb"  -> GL_SRGB8_ALPHA8

(***************************************************************************)
(* librashader_runtime::scaling.                                           *)
(***************************************************************************)
\* number of mip levels of a full chain: 1 + floor(log2(max(w, h)))
RECURSIVE Log2Levels(_)
Log2Levels(n) == IF n = 0 THEN 0 ELSE 1 + Log2Levels(n \div 2)

calc_miplevel(size) == Log2Levels(Max(size.width, size.height))

\* round(num/den * axis), half away from zero, on nonnegative input
RoundMul(factor, axis) ==
    (2 * factor.num * axis + factor.den) \div (2 * factor.den)

\* The resolver is handed the source size and the viewport size alone
\* (framebuffer.rs:100, texture.rs:142): a rule by the original has the
\* size in the source position to go by.
ScaleAxis(s, source_axis, viewport_axis) ==
    LET raw == CASE s.scale_type = "Input"    -> RoundMul(s.factor, source_axis)
                 [] s.scale_type = "Original" -> RoundMul(s.factor, source_axis)
                 [] s.scale_type = "Viewport" -> RoundMul(s.factor, viewport_axis)
                 [] s.scale_type = "Absolute" -> s.factor.num
    IN  Max(raw, 1)

scale(scaling, source, viewport) ==
    Size(ScaleAxis(scaling.x, source.width, viewport.width),
         ScaleAxis(scaling.y, source.height, viewport.height))

(***************************************************************************)
(* The GL implementation the chain runs on.                                *)
(***************************************************************************)
VARIABLES
    gl_driver,              \* how the driver hands out texture names
    gl_faults,              \* framebuffer allocations the driver has refused
    gl_framebuffer,         \* framebuffer bound to GL_FRAMEBUFFER
    gl_textures             \* live texture names created by the chain

\* the GL state a call runs in and leaves behind
Env(bound, live, faults) == [bound |-> bound, live |-> live, faults |-> faults]

GlEnv == Env(gl_framebuffer, gl_textures, gl_faults)

(***************************************************************************)
(* GL object names.  GenTextures returns a name that is not in use; which  *)
(* one is up to the driver.  Two drivers are modelled: one that hands the  *)
(* name deleted a moment ago out again, and one that does not (it takes    *)
(* turns between two names per framebuffer object).                        *)
(***************************************************************************)
Drivers == {"reuse", "fresh"}

TextureName(handle, slot) == 2 * (handle - 1) + slot + 1

GenTextures(fb, old) ==
    IF gl_driver = "reuse" \/ old = 0
    THEN TextureName(fb.handle, 0)
    ELSE TextureName(fb.handle, (old - TextureName(fb.handle, 0) + 1) % 2)

(***************************************************************************)
(* Gl3Framebuffer.  `complete`, `backing` and `content` are the GL side    *)
(* of the object: the framebuffer status, the storage the texture really   *)
(* has, and what the texture holds.                                        *)
(***************************************************************************)
NoBacking == [alloc |-> FALSE, size |-> Size(0, 0), format |-> 0]
NoContent == [kind |-> "none", pass |-> 0, age |-> 0, input |-> 0]

Framebuffer_new(handle, max_levels) ==
    [ handle |-> handle, image |-> 0, size |-> Size(1, 1), format |-> 0,
      max_levels |-> max_levels, mip_levels |-> 0, is_raw |-> FALSE,
      complete |-> FALSE, init_failed |-> FALSE,
      backing |-> NoBacking, content |-> NoContent ]

GLImage(handle, format, size) ==
    [handle |-> handle, format |-> format, size |-> size]

Texture(image, filter, wrap_mode) ==
    [image |-> image, filter |-> filter, mip_filter |-> filter,
     wrap_mode |-> wrap_mode]

Texture_default ==
    Texture(GLImage(0, 0, Size(0, 0)), "Linear", "ClampToBorder")

\* a view that takes the default wrap mode, not the one it is given
as_texture_default_wrap(fb, filter, wrap_mode) ==
    Texture(GLImage(fb.image, fb.format, fb.size), filter, "ClampToBorder")

as_texture(fb, filter, wrap_mode) ==
    Texture(GLImage(fb.image, fb.format, fb.size), filter, wrap_mode)

\* mip_levels as init computes them from the clamped size
MipLevels(fb, size) ==
    LET l1 == calc_miplevel(size)
        l2 == IF l1 > fb.max_levels THEN fb.max_levels ELSE l1
    IN  IF l2 = 0 THEN 1 ELSE l2

ClampSize(size) ==
    Size(IF size.width = 0 THEN 1 ELSE size.width,
         IF size.height = 0 THEN 1 ELSE size.height)

\* statuses CheckFramebufferStatus can report for a texture of this format:
\* TexStorage2D rejects internal format 0, the attachment has no storage
FramebufferStatuses(format, faults) ==
    IF format = 0 THEN {"INCOMPLETE_ATTACHMENT"}
    ELSE IF faults < MaxFaults
         THEN {"COMPLETE", "UNSUPPORTED", "INCOMPLETE_ATTACHMENT"}
         ELSE {"COMPLETE"}

(***************************************************************************)
(* Gl3Framebuffer::init.  The result is the set of outcomes the GL can     *)
(* produce: the framebuffer after the call, whether init returned Ok, and  *)
(* the GL state it left.                                                   *)
(***************************************************************************)
Result(fb, ok, env) == [fb |-> fb, ok |-> ok, env |-> env]

init(fb, size, format, env) ==
    IF fb.is_raw THEN { Result(fb, TRUE, env) }
    ELSE
    LET live0   == env.live \ {fb.image}
        n1      == GenTextures(fb, fb.image)
        n2      == GenTextures(fb, n1)
        clamped == ClampSize(size)
        levels  == MipLevels(fb, clamped)
        stored  == [fb EXCEPT !.format = format, !.size = size,
                              !.mip_levels = levels, !.content = NoContent]
    IN  UNION {
          CASE status = "COMPLETE" ->
                 { Result([stored EXCEPT !.image = n1, !.complete = TRUE,
                              !.init_failed = FALSE,
                              !.backing = [alloc |-> TRUE, size |-> clamped,
                                           format |-> format]],
                          TRUE, Env(0, live0 \cup {n1}, env.faults)) }
            [] status = "UNSUPPORTED" ->
                 \* fall back to RGBA8; the status is not checked again
                 { Result([stored EXCEPT !.image = n2, !.complete = c2,
                              !.init_failed = FALSE,
                              !.backing = [alloc |-> TRUE, size |-> clamped,
                                           format |-> GL_RGBA8]],
                          TRUE, Env(0, live0 \cup {n2}, env.faults + 1))
                   : c2 \in BOOLEAN }
            [] OTHER ->
                 \* early return: framebuffer and texture stay bound
                 { Result([stored EXCEPT !.image = n1, !.complete = FALSE,
                              !.init_failed = TRUE,
                              !.backing = [alloc |-> format # 0,
                                           size |-> IF format # 0 THEN clamped
                                                    ELSE Size(0, 0),
                                           format |-> format]],
                          FALSE,
                          Env(fb.handle, live0 \cup {n1},
                              IF format = 0 THEN env.faults ELSE env.faults + 1)) }
          : status \in FramebufferStatuses(format, env.faults) }

(***************************************************************************)
(* Gl3Framebuffer::scale.                                                  *)
(***************************************************************************)
\* a scale that allocates without comparing the sizes
scale_unconditionally(fb, scaling, format, vp, src, env) ==
    IF fb.is_raw THEN { Result(fb, TRUE, env) }
    ELSE
    LET size == scale(scaling, src.image.size, vp.output.size)
    IN  init([fb EXCEPT !.size = size], size,
             GLenumOf(IF format = "Unknown" THEN "R8G8B8A8Unorm" ELSE format),
             env)

Framebuffer_scale(fb, scaling, format, vp, src, env) ==
    IF fb.is_raw THEN { Result(fb, TRUE, env) }
    ELSE
    LET size == scale(scaling, src.image.size, vp.output.size)
    IN  IF fb.size # size
        THEN init([fb EXCEPT !.size = size], size,
                  GLenumOf(IF format = "Unknown" THEN "R8G8B8A8Unorm" ELSE format),
                  env)
        ELSE { Result(fb, TRUE, env) }

(***************************************************************************)
(* Gl3Framebuffer::clear::<true> and Gl3Framebuffer::copy_from.  Clearing  *)
(* or blitting into a framebuffer that is not complete is a GL error and   *)
(* leaves the texture as it was.                                           *)
(***************************************************************************)
Framebuffer_clear(fb) ==
    IF fb.complete
    THEN [fb EXCEPT !.content = [NoContent EXCEPT !.kind = "clear"]]
    ELSE fb

Blit(fb, image) ==
    IF fb.complete
    THEN [fb EXCEPT !.content = [NoContent EXCEPT !.kind = "copy",
                                                  !.input = image.handle]]
    ELSE fb

copy_from(fb, image, env) ==
    LET rs == IF image.size # fb.size \/ image.format # fb.format
              THEN init(fb, image.size, image.format, env)
              ELSE { Result(fb, TRUE, env) }
    IN  { IF r.ok
          THEN Result(Blit(r.fb, image), TRUE, [r.env EXCEPT !.bound = 0])
          ELSE r : r \in rs }

(***************************************************************************)
(* Presets.  A pass carries its configuration and the OriginalHistory      *)
(* indices its reflection lists as textures and as texture sizes.  The     *)
(* passes scaled by their input ask for mipmaps, the others do not.        *)
(***************************************************************************)
Scaling(type, num, den) ==
    [scale_type |-> type, factor |-> [num |-> num, den |-> den]]

Scale2D(s) == [x |-> s, y |-> s]

PassConfig(scaling, format, filter, wrap_mode, history) ==
    [ scaling |-> Scale2D(scaling), format |-> format, filter |-> filter,
      wrap_mode |-> wrap_mode, history_textures |-> history,
      history_sizes |-> {}, ubo |-> TRUE, frame_count_mod |-> 0,
      mipmap |-> scaling.scale_type = "Input" ]

PassConfigs ==
    << PassConfig(Scaling("Input", 2, 1), "Unknown", "Linear", "ClampToEdge", {}),
       PassConfig(Scaling("Input", 1, 1), "R8G8B8A8Srgb", "Nearest", "Repeat", {}),
       PassConfig(Scaling("Viewport", 1, 1), "R8G8B8A8Unorm", "Linear", "Repeat", {}) >>

\* a single pass that samples the two most recent history entries
HistoryPass ==
    PassConfig(Scaling("Viewport", 1, 1), "R8G8B8A8Unorm", "Linear", "Repeat", {0, 1})

\* shader lists: the first n of PassConfigs (taken round), n = 1..MaxPasses,
\* and the history pass on its own
ShaderLists ==
    { [i \in 1..n |-> PassConfigs[((i - 1) % Len(PassConfigs)) + 1]]
      : n \in 1..MaxPasses } \cup { << HistoryPass >> }

Presets ==
    { [shaders |-> sh, textures |-> <<>>, shader_count |-> c]
      : sh \in ShaderLists, c \in 0..MaxPasses }

\* presets whose shader_count does not exceed the shader list
LoadablePresets == { p \in Presets : p.shader_count <= Len(p.shaders) }

(***************************************************************************)
(* FilterChain::init_history: the number of history framebuffers.          *)
(***************************************************************************)
RECURSIVE required_images(_)
required_images(filters) ==
    IF filters = <<>> THEN 0
    ELSE Max(required_images(Tail(filters)),
             Max(Cardinality(Head(filters).history_textures),
                 Cardinality(Head(filters).history_sizes)))

HistoryLen(filters) ==
    IF required_images(filters) <= 1 THEN 0 ELSE required_images(filters)

\* framebuffer object names handed out by GenFramebuffers at construction
OutputHandle(i) == i
FeedbackHandle(n, i) == n + i
HistoryHandle(n, k) == 2 * n + k

init_history_framebuffers(filters) ==
    [k \in 1..HistoryLen(filters) |->
        Framebuffer_new(HistoryHandle(Len(filters), k), 1)]

init_history_textures(filters, filter, wrap_mode) ==
    [k \in 1..HistoryLen(filters) |->
        Texture(GLImage(0, 0, Size(0, 0)), filter, wrap_mode)]

(***************************************************************************)
(* State of a chain and of the frame call in progress.                     *)
(***************************************************************************)
VARIABLES
    passes,                 \* FilterChain.passes (their configuration)
    passes_enabled,         \* FilterMutable.passes_enabled
    output_framebuffers,
    feedback_framebuffers,
    history_framebuffers,   \* front of the deque is element 1
    output_textures,
    feedback_textures,
    history_textures,
    pc,                     \* position inside frame; "idle" between calls
    index,                  \* loop index of the running loop
    viewport, input,        \* arguments of the running frame call
    original, source,       \* locals of the running frame call
    result,                 \* what the last finished call returned
    log,                    \* GL work issued by the last frame call
    preset,                 \* the preset the chain is loaded from
    luts,                   \* FilterCommon.luts
    gl_objects,             \* live framebuffer objects, programs and buffers
    gl_pixel_unpack,        \* buffer bound to GL_PIXEL_UNPACK_BUFFER
    call,                   \* last operation called on a managed image
    framebuffer,            \* a Gl3Framebuffer used on its own
    vk_image,               \* an OwnedImage of the Vulkan runtime
    vk_device,              \* live images and image views of the device
    commands,               \* GL calls or Vulkan commands of the last operation
    count,                  \* frame counter a caller passes to frame
    frame_count,            \* frame count handed to the draw of a pass
    ring_slot               \* slot of the UBO ring the draw of a pass used

vars == << gl_driver, gl_faults, gl_framebuffer, gl_textures, passes,
           passes_enabled, output_framebuffers, feedback_framebuffers,
           history_framebuffers, output_textures, feedback_textures,
           history_textures, pc, index, viewport, input, original, source,
           result, log, preset, luts, gl_objects, gl_pixel_unpack,
           call, framebuffer, vk_image, vk_device, commands, count,
           frame_count, ring_slot >>

\* what is used on its own, apart from a chain
apart == << call, framebuffer, vk_image, vk_device, commands, count,
           frame_count, ring_slot >>
chain == << gl_driver, passes, passes_enabled, preset, luts, gl_pixel_unpack,
            apart >>
gl == << gl_faults, gl_framebuffer, gl_textures >>
framebuffers == << output_framebuffers, feedback_framebuffers,
                   history_framebuffers >>
textures == << output_textures, feedback_textures, history_textures >>
locals == << viewport, input, original, source >>

(***************************************************************************)
(* Arguments a caller passes to frame.                                     *)
(***************************************************************************)
\* the final pass renders into the caller's framebuffer, here the default one
Viewport_new(size) ==
    [ x |-> 0, y |-> 0, mvp |-> "None",
      output |-> [Framebuffer_new(0, 1) EXCEPT
                     !.size = size, !.format = GL_RGBA8,
                     !.mip_levels = 1, !.is_raw = TRUE, !.complete = TRUE] ]

\* one viewport at the origin without a matrix, one at an offset with the
\* caller's matrix
Viewports ==
    { Viewport_new(Size(2, 2)),
      [Viewport_new(Size(4, 2)) EXCEPT !.x = 1, !.y = 2, !.mvp = "Some"] }

\* a texture of the caller; its name is in use, GenTextures never returns it
InputHandle == TextureName(HistoryHandle(MaxPasses, MaxHistoryIndex + 1) + 1, 0)

InputImages ==
    { GLImage(InputHandle, f, s) : f \in {0, GL_RGBA8},
                                   s \in {Size(1, 1), Size(2, 1)} }

FrameOptions == { [clear_history |-> b] : b \in BOOLEAN }

NoArgs == [viewport |-> Viewport_new(Size(1, 1)),
           input |-> GLImage(0, 0, Size(0, 0))]

EmptyLog == [draws |-> <<>>, cleared |-> {}, swapped |-> {}]

(***************************************************************************)
(* GL objects a chain owns besides its textures: the framebuffer objects   *)
(* of its framebuffers, one program per pass and, for a pass with a UBO,   *)
(* a ring of UboRingSize buffers.                                          *)
(***************************************************************************)
NoObjects ==
    [framebuffers |-> {}, programs |-> {}, shaders |-> {}, buffers |-> {}]

\* a ring for every pass, whether its reflection declares a UBO or not
ring_without_reflection(filters, i) ==
    { <<i, slot>> : slot \in 1..UboRingSize }

PassBuffers(filters, i) ==
    IF filters[i].ubo THEN { <<i, slot>> : slot \in 1..UboRingSize } ELSE {}

\* programs and ring buffers of the first k passes
PassObjects(filters, k) ==
    [ framebuffers |-> {},
      programs |-> 1..k,
      shaders |-> {},
      buffers |-> UNION { PassBuffers(filters, i) : i \in 1..k } ]

ChainObjects(filters) ==
    LET n == Len(filters)
    IN  [ PassObjects(filters, n) EXCEPT !.framebuffers =
            { OutputHandle(i) : i \in 1..n }
            \cup { FeedbackHandle(n, i) : i \in 1..n }
            \cup { HistoryHandle(n, k) : k \in 1..HistoryLen(filters) } ]

(***************************************************************************)
(* FilterChain::load_from_preset when every step succeeds.                 *)
(***************************************************************************)
Chain(p) ==
    LET filters == p.shaders
        n == Len(filters)
        \* filters.first().map(..).unwrap_or_default()
        default_filter == IF n > 0 THEN filters[1].filter ELSE "Linear"
        default_wrap == IF n > 0 THEN filters[1].wrap_mode ELSE "ClampToBorder"
    IN  [ passes |-> filters,
          passes_enabled |-> p.shader_count,
          output_framebuffers |-> [i \in 1..n |-> Framebuffer_new(OutputHandle(i), 1)],
          feedback_framebuffers |->
              [i \in 1..n |-> Framebuffer_new(FeedbackHandle(n, i), 1)],
          output_textures |-> [i \in 1..n |-> Texture_default],
          feedback_textures |-> [i \in 1..n |-> Texture_default],
          history_framebuffers |-> init_history_framebuffers(filters),
          history_textures |->
              init_history_textures(filters, default_filter, default_wrap) ]

(***************************************************************************)
(* The frame count handed to the draw of a pass (filter_chain.rs 590-594,  *)
(* 615-619).  count is a usize of 64 bits, written as its upper and lower  *)
(* 32 bits; the value handed to draw is a u32.                             *)
(***************************************************************************)
U64(hi, lo) == [hi |-> hi, lo |-> lo]

\* 2^32 mod m, through 2^16
Pow32Mod(m) == ((65536 % m) * (65536 % m)) % m

\* count % m as usize
CountMod(c, m) == U64(0, (((c.hi % m) * Pow32Mod(m)) + (c.lo % m)) % m)

\* `as u32`: the lower 32 bits
as_u32(c) == c.lo

frame_count_of(config, c) ==
    as_u32(IF config.frame_count_mod > 0
           THEN CountMod(c, config.frame_count_mod)
           ELSE c)

\* slot of the UBO ring used on a frame: the frame counter mod the ring size
\* (2^32 is a multiple of the ring size)
RingSlot(c) == c.lo % UboRingSize

\* the image an operation finds
Before(image, size, format, max_levels) ==
    [image |-> image, size |-> size, format |-> format, max_levels |-> max_levels]

NoBefore == Before(0, Size(0, 0), 0, 0)

\* an operation, the size, format and mipmap flag its arguments resolve to,
\* and the image it was called on
Call(op, size, format, mipmap, before) ==
    [ op |-> op, size |-> size, format |-> format, mipmap |-> mipmap,
      before |-> before ]

\* no managed image is used on its own, no frame counter is looked at
NoCall == Call("none", Size(0, 0), 0, FALSE, NoBefore)
NoFramebuffer == Framebuffer_new(0, 0)
NoImage == [ image |-> 0, image_view |-> 0, size |-> Size(0, 0), format |-> 0,
             max_miplevels |-> 0, levels |-> 0, layout |-> <<>> ]
NoDevice == [images |-> {}, views |-> {}, faults |-> 0]
NoCount == U64(0, 0)

NothingApart ==
    /\ call = NoCall
    /\ framebuffer = NoFramebuffer
    /\ vk_image = NoImage
    /\ vk_device = NoDevice
    /\ commands = <<>>
    /\ count = NoCount
    /\ frame_count = 0
    /\ ring_slot = 0

Idle ==
    /\ pc = "idle"
    /\ index = 0
    /\ viewport = NoArgs.viewport
    /\ input = NoArgs.input
    /\ original = Texture_default
    /\ source = Texture_default

Init ==
    \E p \in LoadablePresets :
        LET c == Chain(p) IN
        /\ preset = p
        /\ luts = <<>>
        /\ gl_objects = ChainObjects(p.shaders)
        /\ gl_pixel_unpack = 0
        /\ passes = c.passes
        /\ passes_enabled = c.passes_enabled
        /\ output_framebuffers = c.output_framebuffers
        /\ feedback_framebuffers = c.feedback_framebuffers
        /\ history_framebuffers = c.history_framebuffers
        /\ output_textures = c.output_textures
        /\ feedback_textures = c.feedback_textures
        /\ history_textures = c.history_textures
        /\ NothingApart
        /\ gl_driver \in Drivers
        /\ gl_faults = 0
        /\ gl_framebuffer = 0
        /\ gl_textures = {}
        /\ Idle
        /\ result = "None"
        /\ log = EmptyLog

\* a draw of an earlier frame call gets one frame older
Older(fb) ==
    IF fb.content.kind = "draw"
    THEN [fb EXCEPT !.content.age = Min(fb.content.age + 1, 2)]
    ELSE fb

\* frame returns: its arguments and locals are gone
Return(res) ==
    /\ result' = res
    /\ pc' = "idle"
    /\ index' = 0
    /\ viewport' = NoArgs.viewport
    /\ input' = NoArgs.input
    /\ original' = Texture_default
    /\ source' = Texture_default

SetEnv(env) ==
    /\ gl_framebuffer' = env.bound
    /\ gl_textures' = env.live
    /\ gl_faults' = env.faults

(***************************************************************************)
(* FilterChain::frame, up to the resize loop (lines 509-561).              *)
(***************************************************************************)
FrameBegin(vp, in, opt) ==
    /\ pc = "idle"
    /\ LET hist == IF opt.clear_history
                   THEN [k \in 1..Len(history_framebuffers) |->
                            Framebuffer_clear(history_framebuffers[k])]
                   ELSE history_framebuffers
           filter == passes[1].filter
           wrap_mode == passes[1].wrap_mode
       IN
       /\ history_framebuffers' = hist
       /\ output_framebuffers' =
              [i \in 1..Len(output_framebuffers) |-> Older(output_framebuffers[i])]
       /\ feedback_framebuffers' =
              [i \in 1..Len(feedback_framebuffers) |-> Older(feedback_framebuffers[i])]
       /\ gl_framebuffer' = IF opt.clear_history /\ Len(hist) > 0
                            THEN 0 ELSE gl_framebuffer
       /\ log' = [EmptyLog EXCEPT !.cleared =
                     IF opt.clear_history
                     THEN {fb.handle : fb \in Range(history_framebuffers)} ELSE {}]
       /\ IF passes_enabled = 0
          THEN /\ Return("Ok")
               /\ UNCHANGED textures
          ELSE /\ viewport' = vp
               /\ input' = in
               /\ history_textures' =
                      [k \in 1..Len(history_textures) |->
                          IF k <= Len(hist)
                          THEN [history_textures[k] EXCEPT !.image =
                                   as_texture(hist[k], filter, wrap_mode).image]
                          ELSE history_textures[k]]
               /\ feedback_textures' =
                      [i \in 1..Len(feedback_textures) |->
                          IF i <= passes_enabled
                          THEN [feedback_textures[i] EXCEPT !.image =
                                   as_texture(feedback_framebuffers[i],
                                              passes[i].filter,
                                              passes[i].wrap_mode).image]
                          ELSE feedback_textures[i]]
               /\ original' = Texture(in, filter, wrap_mode)
               /\ source' = Texture(in, filter, wrap_mode)
               /\ UNCHANGED result
               /\ pc' = "scale"
               /\ index' = 1
               /\ UNCHANGED output_textures
    /\ UNCHANGED << chain, gl_textures, gl_faults, gl_objects >>

Frame ==
    \E vp \in Viewports, in \in InputImages, opt \in FrameOptions :
        FrameBegin(vp, in, opt)

(***************************************************************************)
(* One iteration of the resize loop of frame (lines 563-580): the output   *)
(* framebuffer of the pass, then its feedback framebuffer.                 *)
(***************************************************************************)
ScaleSource == source

ScalePass ==
    /\ pc = "scale"
    /\ LET pass == passes[index]
       IN \E r1 \in Framebuffer_scale(output_framebuffers[index], pass.scaling,
                                      pass.format, viewport, ScaleSource, GlEnv) :
            /\ output_framebuffers' = [output_framebuffers EXCEPT ![index] = r1.fb]
            /\ IF ~r1.ok
               THEN /\ SetEnv(r1.env)
                    /\ Return("Err")
                    /\ UNCHANGED feedback_framebuffers
               ELSE \E r2 \in Framebuffer_scale(feedback_framebuffers[index],
                                                pass.scaling, pass.format,
                                                viewport, ScaleSource, r1.env) :
                      /\ feedback_framebuffers' =
                             [feedback_framebuffers EXCEPT ![index] = r2.fb]
                      /\ SetEnv(r2.env)
                      /\ IF ~r2.ok
                         THEN Return("Err")
                         ELSE /\ UNCHANGED << result, locals >>
                              /\ IF index < passes_enabled
                                 THEN /\ pc' = "scale"
                                      /\ index' = index + 1
                                 ELSE /\ pc' = "draw"
                                      /\ index' = 1
    /\ UNCHANGED << chain, history_framebuffers, textures, log, gl_objects >>

(***************************************************************************)
(* FilterPass::draw: binds the render target, draws the quad and leaves    *)
(* the default framebuffer bound.                                          *)
(***************************************************************************)
FilterPass_draw(target, pass_index) ==
    IF target.complete /\ ~target.is_raw
    THEN [target EXCEPT !.content = [NoContent EXCEPT !.kind = "draw",
                                                      !.pass = pass_index]]
    ELSE target

\* a render target that forgets the offset it is given
render_target_at_origin(target, mvp, x, y) ==
    [framebuffer |-> target, mvp |-> mvp, x |-> 0, y |-> 0]

\* RenderTarget::new(framebuffer, mvp, x, y)
RenderTarget(target, mvp, x, y) ==
    [framebuffer |-> target, mvp |-> mvp, x |-> x, y |-> y]

\* the arguments of one call of draw
DrawRecord(pass_index, src, output) ==
    [ pass |-> pass_index, source |-> src,
      target |-> output.framebuffer.handle, raw |-> output.framebuffer.is_raw,
      mvp |-> output.mvp, x |-> output.x, y |-> output.y ]

\* passes 0 .. passes_len-2 (lines 585-605)
DrawPass ==
    /\ pc = "draw"
    /\ index < passes_enabled
    /\ LET pass == passes[index]
           target == FilterPass_draw(output_framebuffers[index], index)
           view == as_texture(target, pass.filter, pass.wrap_mode)
       IN /\ output_framebuffers' = [output_framebuffers EXCEPT ![index] = target]
          /\ output_textures' = [output_textures EXCEPT ![index] = view]
          /\ source' = view
          /\ log' = [log EXCEPT !.draws =
                        Append(@, DrawRecord(index, source,
                                             RenderTarget(target, "None", 0, 0)))]
    /\ gl_framebuffer' = 0
    /\ index' = index + 1
    /\ UNCHANGED << chain, feedback_framebuffers, history_framebuffers,
                    feedback_textures, history_textures, gl_textures, gl_faults,
                    gl_objects,
                    pc, viewport, input, original, result >>

(***************************************************************************)
(* FilterChain::push_history (lines 491-504).                              *)
(***************************************************************************)
NeedsHistoryInit(back, image) ==
    back.size # image.size \/ (image.format # 0 /\ image.format # back.format)

push_history(back, image, env) ==
    LET first == IF NeedsHistoryInit(back, image)
                 THEN init(back, image.size, image.format, env)
                 ELSE { Result(back, TRUE, env) }
    IN  UNION { IF r.ok THEN copy_from(r.fb, image, r.env) ELSE {r}
                : r \in first }

\* Drop for Gl3Framebuffer: the framebuffer object and its texture are
\* deleted; deleting the bound framebuffer object reverts the binding to 0
Framebuffer_drop(fb, env) ==
    [env EXCEPT !.bound = IF @ = fb.handle THEN 0 ELSE @,
                !.live = @ \ {fb.image}]

\* a swap of the enabled passes alone
swap_enabled_passes == 1..passes_enabled

\* the framebuffers that change slot in the swap loop (lines 628-635)
SwapRange == 1..Len(output_framebuffers)

(***************************************************************************)
(* The end of frame (lines 607-643): the last enabled pass is drawn into   *)
(* the viewport, the output and feedback framebuffers are swapped, the     *)
(* input is pushed to the history, frame returns.                          *)
(***************************************************************************)
DrawFinal ==
    /\ pc = "draw"
    /\ index = passes_enabled
    /\ output_framebuffers' =
           [i \in 1..Len(output_framebuffers) |->
               IF i \in SwapRange THEN feedback_framebuffers[i]
               ELSE output_framebuffers[i]]
    /\ feedback_framebuffers' =
           [i \in 1..Len(feedback_framebuffers) |->
               IF i \in SwapRange THEN output_framebuffers[i]
               ELSE feedback_framebuffers[i]]
    /\ log' = [log EXCEPT
                  !.draws = Append(@,
                      DrawRecord(index,
                                 [source EXCEPT
                                     !.filter = passes[index].filter,
                                     !.mip_filter = passes[index].filter],
                                 RenderTarget(viewport.output, viewport.mvp,
                                              viewport.x, viewport.y))),
                  !.swapped = SwapRange]
    /\ IF history_framebuffers = <<>>
       THEN /\ Return("Ok")
            /\ UNCHANGED << history_framebuffers, gl, gl_objects >>
       ELSE LET n == Len(history_framebuffers)
                back == history_framebuffers[n]
                rest == SubSeq(history_framebuffers, 1, n - 1)
            IN \E r \in push_history(back, input, GlEnv) :
                 IF r.ok
                 THEN /\ history_framebuffers' = <<r.fb>> \o rest
                      /\ SetEnv(r.env)
                      /\ UNCHANGED gl_objects
                      /\ Return("Ok")
                 ELSE \* `back` is dropped by the early return
                      /\ history_framebuffers' = rest
                      /\ SetEnv(Framebuffer_drop(r.fb, r.env))
                      /\ gl_objects' = [gl_objects EXCEPT
                                           !.framebuffers = @ \ {r.fb.handle}]
                      /\ Return("Err")
    /\ UNCHANGED << chain, textures >>

Next ==
    \/ Frame
    \/ ScalePass
    \/ DrawPass
    \/ DrawFinal

Spec == Init /\ [][Next]_vars

(***************************************************************************)
(* Construction: FilterChain::load_from_preset, step by step.  The presets *)
(* it is given are richer than the ones frames are run on: any history     *)
(* references, LUT textures, a shader_count of any value.                  *)
(***************************************************************************)
LoadPassConfig(history, sizes, ubo) ==
    [ PassConfigs[3] EXCEPT !.history_textures = history,
                            !.history_sizes = sizes, !.ubo = ubo ]

LoadPassConfigs ==
    { LoadPassConfig({}, {}, TRUE),
      LoadPassConfig({0}, {}, FALSE),
      LoadPassConfig({0, 1}, {}, TRUE),
      LoadPassConfig({MaxHistoryIndex}, {}, TRUE),
      LoadPassConfig({}, {MaxHistoryIndex}, FALSE),
      LoadPassConfig(0..MaxHistoryIndex, {0, 1}, TRUE) }

TextureConfigs ==
    { [mipmap |-> m, filter_mode |-> "Linear", wrap_mode |-> "Repeat"]
      : m \in BOOLEAN }

LoadPresets ==
    { [shaders |-> sh, textures |-> tx, shader_count |-> c]
      : sh \in UNION { [1..n -> LoadPassConfigs] : n \in 0..MaxPasses },
        tx \in UNION { [1..n -> TextureConfigs] : n \in 0..MaxLuts },
        c \in 0..(MaxPasses + 1) }

\* what the caller may have bound to GL_PIXEL_UNPACK_BUFFER: nothing, or a
\* buffer of its own
PixelUnpackBindings == {0, 1}

\* sizes a LUT image can decode to
LutSizes == { Size(1, 1), Size(4, 2) }

\* texture name CreateTextures returns for LUT i
LutName(i) == InputHandle + i

InitLoad ==
    /\ preset \in LoadPresets
    /\ NothingApart
    /\ gl_driver \in Drivers
    /\ gl_pixel_unpack \in PixelUnpackBindings
    /\ gl_faults = 0
    /\ gl_framebuffer = 0
    /\ gl_textures = {}
    /\ gl_objects = NoObjects
    /\ passes = <<>>
    /\ passes_enabled = 0
    /\ luts = <<>>
    /\ output_framebuffers = <<>>
    /\ feedback_framebuffers = <<>>
    /\ history_framebuffers = <<>>
    /\ output_textures = <<>>
    /\ feedback_textures = <<>>
    /\ history_textures = <<>>
    /\ pc = "load_preset"
    /\ index = 0
    /\ viewport = NoArgs.viewport
    /\ input = NoArgs.input
    /\ original = Texture_default
    /\ source = Texture_default
    /\ result = "None"
    /\ log = EmptyLog

\* Drop of a FilterPass: its program and its ring buffers are released
FilterPass_drop(objs, i) ==
    [objs EXCEPT !.programs = @ \ {i},
                 !.buffers = { b \in @ : b[1] # i }]

RECURSIVE DropPasses(_, _)
DropPasses(objs, k) ==
    IF k = 0 THEN objs ELSE DropPasses(FilterPass_drop(objs, k), k - 1)

\* load_from_preset stops without a chain: `how` is "failed" for an Err
\* return and "panicked" for a panic; the locals it held are dropped
LoadStops(how, res, objs) ==
    /\ pc' = how
    /\ result' = res
    /\ index' = 0
    /\ passes' = <<>>
    /\ passes_enabled' = 0
    /\ luts' = <<>>
    /\ output_framebuffers' = <<>>
    /\ feedback_framebuffers' = <<>>
    /\ history_framebuffers' = <<>>
    /\ output_textures' = <<>>
    /\ feedback_textures' = <<>>
    /\ history_textures' = <<>>
    /\ gl_objects' = objs
    /\ UNCHANGED << apart, gl_driver, gl_faults, gl_framebuffer, preset, locals, log >>

\* load_preset (lines 158-207): sources are read, compiled and reflected;
\* no GL object is created
LoadPreset ==
    /\ pc = "load_preset"
    /\ \/ /\ pc' = "init_passes"
          /\ index' = 1
          /\ UNCHANGED << apart, gl_driver, gl_faults, gl_framebuffer, preset, locals,
                          log, result, passes, passes_enabled, luts,
                          framebuffers, textures, gl_objects >>
       \/ /\ preset.shaders # <<>>
          /\ LoadStops("failed", "Err", gl_objects)
    /\ UNCHANGED << gl_textures, gl_pixel_unpack >>

ShadersOf(i) == { <<i, "vertex">>, <<i, "fragment">> }

\* one iteration of the loop of init_passes (lines 290-435)
InitPass ==
    /\ pc = "init_passes"
    /\ index <= Len(preset.shaders)
    /\ LET config == preset.shaders[index]
           built == Len(passes)
           linked == [gl_objects EXCEPT !.programs = @ \cup {index}]
           ring == [linked EXCEPT !.buffers =
                       @ \cup PassBuffers(preset.shaders, index)]
       IN \/ \* reflect or compile fails (lines 291-294)
             LoadStops("failed", "Err", DropPasses(gl_objects, built))
          \/ \* get_decoration fails (line 310): the program and both shaders
             \* of this pass are not deleted
             LoadStops("failed", "Err",
                       DropPasses([linked EXCEPT !.shaders = @ \cup ShadersOf(index)],
                                  built))
          \/ \* the program does not link (line 323)
             LoadStops("panicked", "Panic", DropPasses(linked, built))
          \/ /\ passes' = Append(passes, config)
             /\ gl_objects' = ring
             /\ index' = index + 1
             /\ UNCHANGED << apart, gl_driver, gl_faults, gl_framebuffer, preset,
                             locals, log, result, pc, passes_enabled, luts,
                             framebuffers, textures >>
    /\ UNCHANGED << gl_textures, gl_pixel_unpack >>

\* lines 101-119: the output and feedback framebuffers and their textures
InitFramebuffers ==
    /\ pc = "init_passes"
    /\ index > Len(preset.shaders)
    /\ LET c == Chain(preset)
           n == Len(passes)
       IN /\ output_framebuffers' = c.output_framebuffers
          /\ feedback_framebuffers' = c.feedback_framebuffers
          /\ output_textures' = c.output_textures
          /\ feedback_textures' = c.feedback_textures
          /\ gl_objects' = [gl_objects EXCEPT !.framebuffers =
                               { OutputHandle(i) : i \in 1..n }
                               \cup { FeedbackHandle(n, i) : i \in 1..n }]
    /\ pc' = "load_luts"
    /\ index' = 0
    /\ UNCHANGED << apart, gl_driver, gl, gl_pixel_unpack, preset, locals, log, result,
                    passes, passes_enabled, luts, history_framebuffers,
                    history_textures >>

\* a load_luts that generates the mip chain of every LUT whose config asks
\* for mipmaps, whatever the number of levels of its storage
LutTextureByFlag(i, size) ==
    [ texture |-> Texture(GLImage(LutName(i), GL_RGBA8, size),
                          preset.textures[i].filter_mode,
                          preset.textures[i].wrap_mode),
      levels |-> IF preset.textures[i].mipmap THEN calc_miplevel(size) ELSE 1,
      generated |-> preset.textures[i].mipmap ]

\* the entry load_luts makes of LUT i decoded to `size`: the Texture put
\* in the table, the number of levels its storage was created with (lines
\* 223-227, 238) and whether GenerateTextureMipmap was called on it (lines
\* 257-260)
LutTexture(i, size) ==
    LET levels == IF preset.textures[i].mipmap THEN calc_miplevel(size) ELSE 1
    IN [ texture |-> Texture(GLImage(LutName(i), GL_RGBA8, size),
                             preset.textures[i].filter_mode,
                             preset.textures[i].wrap_mode),
         levels |-> levels,
         generated |-> levels > 1 ]

\* load_luts (lines 209-280), called at line 122: `decoded` of the images
\* decode, the next one, if there is one, does not
LoadLuts ==
    /\ pc = "load_luts"
    /\ \E decoded \in 0..Len(preset.textures), size \in LutSizes :
         /\ gl_textures' = gl_textures \cup { LutName(i) : i \in 1..decoded }
         /\ IF decoded = Len(preset.textures)
            THEN /\ luts' = [i \in 1..decoded |-> LutTexture(i, size)]
                 /\ gl_pixel_unpack' = gl_pixel_unpack
                 /\ pc' = "init_history"
                 /\ UNCHANGED << apart, gl_driver, gl_faults, gl_framebuffer, preset,
                                 locals, log, result, index, passes,
                                 passes_enabled, framebuffers, textures,
                                 gl_objects >>
            ELSE \* Image::load fails (line 222): the binding is not restored,
                 \* the textures made so far are not deleted; the
                 \* framebuffers and the passes are dropped
                 /\ gl_pixel_unpack' = 0
                 /\ LoadStops("failed", "Err",
                              [DropPasses(gl_objects, Len(passes))
                                  EXCEPT !.framebuffers = {}])

\* init_history and the construction of the chain (lines 124-148)
InitHistory ==
    /\ pc = "init_history"
    /\ history_framebuffers' = Chain(preset).history_framebuffers
    /\ history_textures' = Chain(preset).history_textures
    /\ gl_objects' = [gl_objects EXCEPT !.framebuffers = @ \cup
                         { HistoryHandle(Len(passes), k)
                           : k \in 1..HistoryLen(passes) }]
    /\ passes_enabled' = preset.shader_count
    /\ result' = "Ok"
    /\ pc' = "loaded"
    /\ UNCHANGED << apart, gl_driver, gl, gl_pixel_unpack, preset, locals, log, index,
                    passes, luts, output_framebuffers, feedback_framebuffers,
                    output_textures, feedback_textures >>

NextLoad ==
    \/ LoadPreset
    \/ InitPass
    \/ InitFramebuffers
    \/ LoadLuts
    \/ InitHistory

SpecLoad == InitLoad /\ [][NextLoad]_vars

(***************************************************************************)
(* A Gl3Framebuffer used on its own: a caller constructs it, with new or   *)
(* around its own texture and framebuffer object with new_from_raw, calls  *)
(* scale, init, copy_from and clear on it in any order, and drops it.      *)
(***************************************************************************)
\* the framebuffer object GenFramebuffers hands to Gl3Framebuffer::new
OwnHandle == OutputHandle(1)
\* the caller's framebuffer object and texture
RawHandle == OutputHandle(2)
RawTexture == TextureName(RawHandle, 0)

new_from_raw(texture, handle, format, size, miplevels) ==
    [ Framebuffer_new(handle, miplevels) EXCEPT
        !.image = texture, !.size = size, !.format = format,
        !.mip_levels = miplevels, !.is_raw = TRUE, !.complete = TRUE,
        !.backing = [alloc |-> TRUE, size |-> size, format |-> format] ]

NoPreset == [shaders |-> <<>>, textures |-> <<>>, shader_count |-> 0]

\* sizes a caller may pass; a dimension may be zero
ImageSizes == { Size(0, 1), Size(1, 1), Size(2, 1) }
ImageFormats == { "Unknown", "R8G8B8A8Unorm", "R8G8B8A8Srgb" }
ImageScalings == { Scale2D(Scaling("Input", 1, 1)),
                   Scale2D(Scaling("Viewport", 1, 1)) }
SourceTextures ==
    { Texture(GLImage(InputHandle, GL_RGBA8, sz), "Linear", "Repeat")
      : sz \in { Size(1, 1), Size(2, 1) } }
\* the arguments of scale that resolve to different sizes: a scaling by the
\* input looks at the source alone, a scaling by the viewport at the viewport
ScaleArguments ==
    { a \in [scaling : ImageScalings, vp : Viewports, src : SourceTextures] :
        IF a.scaling.x.scale_type = "Input"
        THEN a.vp = CHOOSE vp \in Viewports : TRUE
        ELSE a.src = CHOOSE src \in SourceTextures : TRUE }

\* the formats scale is asked for: none, which it replaces, and one it keeps
ScaleFormats == { "Unknown", "R8G8B8A8Srgb" }

CopyImages ==
    { GLImage(InputHandle, f, sz) : f \in {0, GL_RGBA8, GL_SRGB8_ALPHA8},
                                    sz \in ImageSizes }

InitImage ==
    /\ preset = NoPreset
    /\ call = NoCall
    /\ framebuffer = NoFramebuffer
    /\ vk_image = NoImage
    /\ vk_device = NoDevice
    /\ commands = <<>>
    /\ count = NoCount
    /\ frame_count = 0
    /\ ring_slot = 0
    /\ gl_driver \in Drivers
    /\ gl_pixel_unpack = 0
    /\ gl_faults = 0
    /\ gl_framebuffer = 0
    /\ gl_textures = {RawTexture}
    /\ gl_objects = [NoObjects EXCEPT !.framebuffers = {RawHandle}]
    /\ passes = <<>>
    /\ passes_enabled = 0
    /\ luts = <<>>
    /\ output_framebuffers = <<>>
    /\ feedback_framebuffers = <<>>
    /\ history_framebuffers = <<>>
    /\ output_textures = <<>>
    /\ feedback_textures = <<>>
    /\ history_textures = <<>>
    /\ pc = "image"
    /\ index = 0
    /\ viewport = NoArgs.viewport
    /\ input = NoArgs.input
    /\ original = Texture_default
    /\ source = Texture_default
    /\ result = "None"
    /\ log = EmptyLog

\* what no operation on a managed image touches
nochain == << gl_driver, gl_pixel_unpack, passes, passes_enabled, preset, luts,
              framebuffers, textures, pc, index, locals, log, count,
              frame_count, ring_slot >>

\* nothing has been constructed yet
Unconstructed ==
    /\ pc = "image"
    /\ call = NoCall

\* a Gl3Framebuffer is alive
HasFramebuffer == pc = "image" /\ framebuffer # NoFramebuffer

FramebufferBefore ==
    Before(framebuffer.image, framebuffer.size, framebuffer.format,
           framebuffer.max_levels)

\* the outcome r of an operation becomes the state
Outcome(r, c) ==
    /\ framebuffer' = r.fb
    /\ result' = IF r.ok THEN "Ok" ELSE "Err"
    /\ call' = c
    /\ SetEnv(r.env)
    /\ commands' = <<>>
    /\ UNCHANGED << gl_objects, vk_image, vk_device, nochain >>

Gl3New ==
    /\ Unconstructed
    /\ \E max_levels \in {1, 2} :
          /\ framebuffer' = Framebuffer_new(OwnHandle, max_levels)
          /\ gl_objects' = [gl_objects EXCEPT !.framebuffers = @ \cup {OwnHandle}]
          /\ call' = Call("new", Size(1, 1), 0, max_levels # 1, NoBefore)
    /\ result' = "Ok"
    /\ UNCHANGED << gl, vk_image, vk_device, commands, nochain >>

Gl3NewFromRaw ==
    /\ Unconstructed
    /\ \E size \in { Size(2, 2) } :
          /\ framebuffer' = new_from_raw(RawTexture, RawHandle, GL_RGBA8, size, 1)
          /\ call' = Call("new_from_raw", size, GL_RGBA8, FALSE, NoBefore)
    /\ result' = "Ok"
    /\ UNCHANGED << gl, gl_objects, vk_image, vk_device, commands, nochain >>

Gl3Scale ==
    /\ HasFramebuffer
    /\ \E a \in ScaleArguments, format \in ScaleFormats :
          \E r \in Framebuffer_scale(framebuffer, a.scaling, format, a.vp,
                                     a.src, GlEnv) :
              Outcome(r, Call("scale",
                              scale(a.scaling, a.src.image.size,
                                    a.vp.output.size),
                              GLenumOf(IF format = "Unknown"
                                       THEN "R8G8B8A8Unorm" ELSE format),
                              FALSE, FramebufferBefore))

Gl3Init ==
    /\ HasFramebuffer
    /\ \E size \in ImageSizes, format \in ImageFormats :
          \E r \in init(framebuffer, size, GLenumOf(format), GlEnv) :
              Outcome(r, Call("init", size, GLenumOf(format), FALSE,
                              FramebufferBefore))

Gl3CopyFrom ==
    /\ HasFramebuffer
    /\ \E image \in CopyImages :
          \E r \in copy_from(framebuffer, image, GlEnv) :
              Outcome(r, Call("copy_from", image.size, image.format, FALSE,
                              FramebufferBefore))

\* a colour, or a write mask, by channel
Rgba(r, g, b, a) == [red |-> r, green |-> g, blue |-> b, alpha |-> a]

\* the GL calls of Gl3Framebuffer::clear between the two binds
Framebuffer_clear_calls ==
    << [op |-> "ColorMask", mask |-> Rgba(TRUE, TRUE, TRUE, TRUE)],
       [op |-> "ClearColor", color |-> Rgba(0, 0, 0, 0)],
       [op |-> "Clear", buffers |-> "COLOR_BUFFER_BIT"] >>

Gl3Clear ==
    /\ HasFramebuffer
    /\ framebuffer' = Framebuffer_clear(framebuffer)
    /\ SetEnv([GlEnv EXCEPT !.bound = 0])
    /\ commands' = Framebuffer_clear_calls
    /\ result' = "Ok"
    /\ call' = Call("clear", framebuffer.size, framebuffer.format, FALSE,
                    FramebufferBefore)
    /\ UNCHANGED << gl_objects, vk_image, vk_device, nochain >>

Gl3Drop ==
    /\ HasFramebuffer
    /\ SetEnv(Framebuffer_drop(framebuffer, GlEnv))
    /\ gl_objects' = [gl_objects EXCEPT
                         !.framebuffers = @ \ {framebuffer.handle}]
    /\ framebuffer' = NoFramebuffer
    /\ call' = Call("drop", framebuffer.size, framebuffer.format, FALSE,
                    FramebufferBefore)
    /\ result' = "Ok"
    /\ commands' = <<>>
    /\ UNCHANGED << vk_image, vk_device, nochain >>

(***************************************************************************)
(* OwnedImage of the Vulkan runtime, used on its own: new, scale, drop.    *)
(* The device may refuse any creation while its fault budget lasts; a      *)
(* refusal after create_image leaves the image behind (the `?` returns     *)
(* before an OwnedImage exists, nothing destroys the VkImage).             *)
(***************************************************************************)
\* librashader_common: ImageFormat -> vk::Format
VkFormatOf(format) ==
    CASE format = "Unknown"       -> 0
      [] format = "R8G8B8A8Unorm" -> 37
      [] format = "R8G8B8A8Srgb"  -> 43

\* a handle the device has not in use: the least one
VkHandle(live) ==
    CHOOSE n \in 1..(Cardinality(live) + 1) :
        n \notin live /\ \A m \in 1..(n - 1) : m \in live

VkResult(image, ok, device) == [image |-> image, ok |-> ok, device |-> device]

new_internal(device, size, format, max_miplevels) ==
    LET fmt    == IF format = "Unknown" THEN "R8G8B8A8Unorm" ELSE format
        levels == Min(max_miplevels, calc_miplevel(size))
        h      == VkHandle(device.images \cup device.views)
        made   == [device EXCEPT !.images = @ \cup {h}]
        refuse == [device EXCEPT !.faults = @ + 1]
    IN  { VkResult([ image |-> h, image_view |-> h, size |-> size,
                     format |-> VkFormatOf(fmt),
                     max_miplevels |-> max_miplevels, levels |-> levels,
                     \* the layout of each mip level of the new VkImage
                     layout |-> [l \in 1..levels |-> "UNDEFINED"] ],
                   TRUE, [made EXCEPT !.views = @ \cup {h}]) }
        \cup
        ( IF device.faults < MaxFaults
          THEN { \* create_image fails
                 VkResult(NoImage, FALSE, refuse),
                 \* the allocation, the bind or create_image_view fails
                 VkResult(NoImage, FALSE, [made EXCEPT !.faults = @ + 1]) }
          ELSE {} )

\* Drop of an OwnedImage
OwnedImage_drop(image, device) ==
    [device EXCEPT
        !.views = IF image.image_view # 0 THEN @ \ {image.image_view} ELSE @,
        !.images = IF image.image # 0 THEN @ \ {image.image} ELSE @]

(***************************************************************************)
(* Commands recorded in a vk::CommandBuffer.  A recording is the layout    *)
(* every mip level of the image is in once the commands so far have run,   *)
(* and the commands; a barrier or a transfer is recorded with the layouts  *)
(* its mip levels are found in.                                            *)
(***************************************************************************)
REMAINING_MIP_LEVELS == u32_MAX

Recording(layout) == [layout |-> layout, commands |-> <<>>]

\* the mip levels, counted from 0, that a subresource range names in an
\* image of `levels` mip levels
Covered(base, level_count, levels) ==
    { l \in 0..(levels - 1) :
        l >= base /\ (level_count = REMAINING_MIP_LEVELS \/ l - base < level_count) }

\* vkCmdPipelineBarrier with one image memory barrier
cmd_pipeline_barrier(rec, base, level_count, old, new) ==
    LET ls == Covered(base, level_count, Len(rec.layout))
    IN  [ layout   |-> [l \in 1..Len(rec.layout) |->
                           IF (l - 1) \in ls THEN new ELSE rec.layout[l]],
          commands |-> Append(rec.commands,
                          [ op |-> "barrier", base_mip_level |-> base,
                            level_count |-> level_count, levels |-> ls,
                            old_layout |-> old, new_layout |-> new,
                            found |-> {rec.layout[l + 1] : l \in ls} ]) ]

\* the layout a mip level is in, if the image has the level
LayoutOf(rec, level) ==
    IF level < Len(rec.layout) THEN rec.layout[level + 1] ELSE "none"

\* vkCmdBlitImage of one region from mip level src to mip level dst
cmd_blit_image(rec, src, src_layout, dst, dst_layout) ==
    [rec EXCEPT !.commands = Append(@,
        [ op |-> "blit_image", src_level |-> src, src_layout |-> src_layout,
          src_found |-> LayoutOf(rec, src), dst_level |-> dst,
          dst_layout |-> dst_layout, dst_found |-> LayoutOf(rec, dst) ])]

\* vkCmdCopyImage of one region of `extent` into mip level 0
cmd_copy_image(rec, dst_layout, extent) ==
    [rec EXCEPT !.commands = Append(@,
        [ op |-> "copy_image", dst_level |-> 0, dst_layout |-> dst_layout,
          dst_found |-> LayoutOf(rec, 0), extent |-> extent ])]

\* vkCmdClearColorImage of mip level 0
cmd_clear_color_image(rec, layout, color) ==
    [rec EXCEPT !.commands = Append(@,
        [ op |-> "clear_color_image", level |-> 0, layout |-> layout,
          found |-> LayoutOf(rec, 0), color |-> color ])]

\* util::vulkan_image_layout_transition_levels: one barrier over `levels`
\* mip levels from level 0
vulkan_image_layout_transition_levels(rec, levels, old, new) ==
    cmd_pipeline_barrier(rec, 0, levels, old, new)

OwnedImage_scale(image, device, scaling, format, viewport_size, src, mipmap, layout) ==
    LET size == scale(scaling, src.image.size, viewport_size)
        \* Some(layout): the new image is moved to layout.dst_layout
        moved(new) ==
            IF layout = "None" THEN new
            ELSE [new EXCEPT !.layout =
                     vulkan_image_layout_transition_levels(
                         Recording(new.layout), new.levels, "UNDEFINED",
                         layout).layout]
    IN  IF \/ image.size # size
           \/ (mipmap /\ image.max_miplevels = 1)
           \/ (~mipmap /\ image.max_miplevels # 1)
        THEN { IF r.ok
               THEN VkResult(moved(r.image), TRUE,
                             OwnedImage_drop(image, r.device))
               ELSE VkResult(image, FALSE, r.device)
               : r \in new_internal(device, size,
                                    IF format = "Unknown"
                                    THEN "R8G8B8A8Unorm" ELSE format,
                                    IF mipmap THEN u32_MAX ELSE 1) }
        ELSE { VkResult(image, TRUE, device) }

\* OwnedImage::clear
OwnedImage_clear(image) ==
    LET r1 == vulkan_image_layout_transition_levels(
                  Recording(image.layout), REMAINING_MIP_LEVELS,
                  "UNDEFINED", "TRANSFER_DST_OPTIMAL")
        r2 == cmd_clear_color_image(r1, "TRANSFER_DST_OPTIMAL",
                                    Rgba(0, 0, 0, 0))
    IN  vulkan_image_layout_transition_levels(
            r2, REMAINING_MIP_LEVELS, "TRANSFER_DST_OPTIMAL",
            "SHADER_READ_ONLY_OPTIMAL")

\* a copy whose two transitions name mip level 0 alone
copy_from_one_level(image, src) ==
    LET r1 == vulkan_image_layout_transition_levels(
                  Recording(image.layout), 1, "UNDEFINED",
                  "TRANSFER_DST_OPTIMAL")
        r2 == cmd_copy_image(r1, "TRANSFER_DST_OPTIMAL", src.size)
    IN  vulkan_image_layout_transition_levels(
            r2, 1, "TRANSFER_DST_OPTIMAL", "SHADER_READ_ONLY_OPTIMAL")

\* OwnedImage::copy_from; the image itself is not touched (&self)
OwnedImage_copy_from(image, src) ==
    LET r1 == vulkan_image_layout_transition_levels(
                  Recording(image.layout), REMAINING_MIP_LEVELS,
                  "UNDEFINED", "TRANSFER_DST_OPTIMAL")
        r2 == cmd_copy_image(r1, "TRANSFER_DST_OPTIMAL", src.size)
    IN  vulkan_image_layout_transition_levels(
            r2, REMAINING_MIP_LEVELS, "TRANSFER_DST_OPTIMAL",
            "SHADER_READ_ONLY_OPTIMAL")

\* the loop of generate_mipmaps_and_end_pass from `level` on
RECURSIVE MipLoop(_, _, _)
MipLoop(rec, level, levels) ==
    IF level >= levels THEN rec
    ELSE LET src == IF level > 1
                    THEN cmd_pipeline_barrier(rec, level - 1, 1,
                                              "TRANSFER_DST_OPTIMAL",
                                              "TRANSFER_SRC_OPTIMAL")
                    ELSE rec
         IN  MipLoop(cmd_blit_image(src, level - 1, "TRANSFER_SRC_OPTIMAL",
                                    level, "TRANSFER_DST_OPTIMAL"),
                     level + 1, levels)

\* OwnedImage::generate_mipmaps_and_end_pass.  self.levels - 1 of an image
\* with no level overflows u32: a panic where overflow is checked, the
\* largest u32 where it is not.
generate_mipmaps_and_end_pass(image) ==
    LET r1   == cmd_pipeline_barrier(Recording(image.layout), 0, 1,
                                     "COLOR_ATTACHMENT_OPTIMAL",
                                     "TRANSFER_SRC_OPTIMAL")
        r2   == cmd_pipeline_barrier(r1, 1, REMAINING_MIP_LEVELS, "UNDEFINED",
                                     "TRANSFER_DST_OPTIMAL")
        r3   == MipLoop(r2, 1, image.levels)
        last == IF image.levels = 0 THEN u32_MAX ELSE image.levels - 1
        r4   == cmd_pipeline_barrier(r3, 0, last, "TRANSFER_SRC_OPTIMAL",
                                     "SHADER_READ_ONLY_OPTIMAL")
        r5   == cmd_pipeline_barrier(r4, last, 1, "TRANSFER_DST_OPTIMAL",
                                     "SHADER_READ_ONLY_OPTIMAL")
    IN  { [panic |-> FALSE, rec |-> r5] }
        \cup (IF image.levels = 0 THEN { [panic |-> TRUE, rec |-> r3] } ELSE {})

HasImage == pc = "image" /\ vk_image # NoImage

ImageBefore ==
    Before(vk_image.image, vk_image.size, vk_image.format,
           vk_image.max_miplevels)

VkOutcome(r, c) ==
    /\ vk_image' = r.image
    /\ vk_device' = r.device
    /\ result' = IF r.ok THEN "Ok" ELSE "Err"
    /\ call' = c
    /\ commands' = <<>>
    /\ UNCHANGED << gl, gl_objects, framebuffer, nochain >>

VkNew ==
    /\ Unconstructed
    /\ \E size \in ImageSizes, format \in ImageFormats,
          max_miplevels \in {0, 1, u32_MAX} :
          \E r \in new_internal(vk_device, size, format, max_miplevels) :
              VkOutcome(r, Call("new", size,
                                VkFormatOf(IF format = "Unknown"
                                           THEN "R8G8B8A8Unorm" ELSE format),
                                max_miplevels # 1, NoBefore))

VkScale ==
    /\ HasImage
    /\ \E a \in ScaleArguments, format \in ScaleFormats, mipmap \in BOOLEAN,
          layout \in {"None", "SHADER_READ_ONLY_OPTIMAL"} :
          \E r \in OwnedImage_scale(vk_image, vk_device, a.scaling, format,
                                    a.vp.output.size, a.src, mipmap, layout) :
              VkOutcome(r, Call("scale",
                                scale(a.scaling, a.src.image.size,
                                      a.vp.output.size),
                                VkFormatOf(IF format = "Unknown"
                                           THEN "R8G8B8A8Unorm" ELSE format),
                                mipmap, ImageBefore))

VkDrop ==
    /\ HasImage
    /\ vk_device' = OwnedImage_drop(vk_image, vk_device)
    /\ vk_image' = NoImage
    /\ call' = Call("drop", vk_image.size, vk_image.format,
                    vk_image.max_miplevels # 1, ImageBefore)
    /\ result' = "Ok"
    /\ commands' = <<>>
    /\ UNCHANGED << gl, gl_objects, framebuffer, nochain >>

\* the images a caller copies from: they fit the image they are copied into
VulkanImages(image) ==
    { [image |-> InputHandle, size |-> sz, format |-> f] :
        sz \in { z \in ImageSizes : /\ z.width <= image.size.width
                                    /\ z.height <= image.size.height },
        f \in { VkFormatOf("R8G8B8A8Unorm"), VkFormatOf("R8G8B8A8Srgb") } }

\* the commands recorded are taken to have run when the call returns
VkRecorded(rec, c) ==
    /\ vk_image' = [vk_image EXCEPT !.layout = rec.layout]
    /\ commands' = rec.commands
    /\ call' = c
    /\ UNCHANGED << gl, gl_objects, framebuffer, vk_device, nochain >>

VkClear ==
    /\ HasImage
    /\ VkRecorded(OwnedImage_clear(vk_image),
                  Call("clear", vk_image.size, vk_image.format,
                       vk_image.max_miplevels # 1, ImageBefore))
    /\ result' = "Ok"

VkCopyFrom ==
    /\ HasImage
    /\ \E src \in VulkanImages(vk_image) :
          VkRecorded(OwnedImage_copy_from(vk_image, src),
                     Call("copy_from", src.size, src.format,
                          vk_image.max_miplevels # 1, ImageBefore))
    /\ result' = "Ok"

\* a render pass into mip level 0 of the image, still open
VkRenderPass ==
    /\ HasImage
    /\ vk_image' = [vk_image EXCEPT !.layout =
                        [l \in 1..Len(@) |-> IF l = 1
                                             THEN "COLOR_ATTACHMENT_OPTIMAL"
                                             ELSE @[l]]]
    /\ commands' = <<>>
    /\ call' = Call("render_pass", vk_image.size, vk_image.format,
                    vk_image.max_miplevels # 1, ImageBefore)
    /\ result' = "Ok"
    /\ UNCHANGED << gl, gl_objects, framebuffer, vk_device, nochain >>

VkGenerateMipmaps ==
    /\ HasImage
    /\ call.op = "render_pass"
    /\ \E r \in generate_mipmaps_and_end_pass(vk_image) :
          /\ VkRecorded(r.rec,
                        Call("generate_mipmaps", vk_image.size, vk_image.format,
                             vk_image.max_miplevels # 1, ImageBefore))
          /\ result' = IF r.panic THEN "Panic" ELSE "Ok"

NextImage ==
    \/ VkNew
    \/ VkScale
    \/ VkDrop
    \/ VkClear
    \/ VkCopyFrom
    \/ VkRenderPass
    \/ VkGenerateMipmaps
    \/ Gl3New
    \/ Gl3NewFromRaw
    \/ Gl3Scale
    \/ Gl3Init
    \/ Gl3CopyFrom
    \/ Gl3Clear
    \/ Gl3Drop

SpecImage == InitImage /\ [][NextImage]_vars

(***************************************************************************)
(* frame on a chain of one pass, for the frame count alone: the caller     *)
(* passes any count, the pass has any frame_count_mod.                     *)
(***************************************************************************)
FrameCountMods == {0, 1, 2, 3, 60}

\* counts below, at and above 2^32
Counts ==
    { U64(hi, lo) : hi \in 0..2,
                    lo \in {0, 1, 2, 3, 16, 59, 60, 61, 2147483647} }

InitCount ==
    /\ \E m \in FrameCountMods, ubo \in BOOLEAN :
          passes = << [PassConfigs[1] EXCEPT !.frame_count_mod = m,
                                             !.ubo = ubo] >>
    /\ passes_enabled = 1
    /\ preset = NoPreset
    /\ call = NoCall
    /\ framebuffer = NoFramebuffer
    /\ vk_image = NoImage
    /\ vk_device = NoDevice
    /\ commands = <<>>
    /\ count = NoCount
    /\ frame_count = 0
    /\ ring_slot = 0
    /\ gl_driver = "reuse"
    /\ gl_pixel_unpack = 0
    /\ gl_faults = 0
    /\ gl_framebuffer = 0
    /\ gl_textures = {}
    /\ gl_objects = PassObjects(passes, Len(passes))
    /\ luts = <<>>
    /\ output_framebuffers = <<>>
    /\ feedback_framebuffers = <<>>
    /\ history_framebuffers = <<>>
    /\ output_textures = <<>>
    /\ feedback_textures = <<>>
    /\ history_textures = <<>>
    /\ pc = "count"
    /\ index = 0
    /\ viewport = NoArgs.viewport
    /\ input = NoArgs.input
    /\ original = Texture_default
    /\ source = Texture_default
    /\ result = "None"
    /\ log = EmptyLog

\* the last pass is drawn with the frame count of lines 615-619
FrameCount ==
    /\ pc = "count"
    /\ \E c \in Counts :
          /\ count' = c
          /\ frame_count' = frame_count_of(passes[passes_enabled], c)
          /\ ring_slot' = IF passes[passes_enabled].ubo
                          THEN RingSlot(c) ELSE ring_slot
    /\ call' = Call("frame", Size(0, 0), 0, FALSE, NoBefore)
    /\ UNCHANGED << gl, gl_objects, gl_driver, gl_pixel_unpack, passes,
                    passes_enabled, preset, luts, framebuffers, textures, pc,
                    index, locals, log, result, framebuffer, vk_image,
                    vk_device, commands >>

NextCount == FrameCount

SpecCount == InitCount /\ [][NextCount]_vars

(***************************************************************************)
(* scale of a managed image, for the size alone: a fresh image is scaled   *)
(* once by any rule, with any original, source and viewport.               *)
(***************************************************************************)
ScaleRules ==
    { Scale2D(Scaling(type, num, 1)) :
        type \in {"Input", "Viewport", "Original"}, num \in {1, 2} }

InitScale ==
    /\ \E sc \in ScaleRules : passes = << [PassConfigs[1] EXCEPT !.scaling = sc] >>
    /\ passes_enabled = 1
    /\ preset = NoPreset
    /\ call = NoCall
    /\ framebuffer = NoFramebuffer
    /\ vk_image = NoImage
    /\ vk_device = NoDevice
    /\ commands = <<>>
    /\ count = NoCount
    /\ frame_count = 0
    /\ ring_slot = 0
    /\ gl_driver = "reuse"
    /\ gl_pixel_unpack = 0
    /\ gl_faults = 0
    /\ gl_framebuffer = 0
    /\ gl_textures = {}
    /\ gl_objects = [NoObjects EXCEPT !.framebuffers = {OwnHandle}]
    /\ luts = <<>>
    /\ output_framebuffers = <<>>
    /\ feedback_framebuffers = <<>>
    /\ history_framebuffers = <<>>
    /\ output_textures = <<>>
    /\ feedback_textures = <<>>
    /\ history_textures = <<>>
    /\ pc = "resolve"
    /\ index = 0
    /\ viewport \in Viewports
    /\ input = NoArgs.input
    /\ original \in SourceTextures
    /\ source \in SourceTextures \cup
                  { Texture(GLImage(InputHandle, GL_RGBA8, Size(4, 1)),
                            "Linear", "Repeat") }
    /\ result = "None"
    /\ log = EmptyLog

\* Gl3Framebuffer::new(1) and then scale
ScaleGl3 ==
    /\ pc = "resolve"
    /\ call = NoCall
    /\ \E r \in Framebuffer_scale(Framebuffer_new(OwnHandle, 1),
                                   passes[1].scaling, passes[1].format,
                                   viewport, source, GlEnv) :
          Outcome(r, Call("scale",
                          scale(passes[1].scaling, source.image.size,
                                viewport.output.size),
                          GL_RGBA8, FALSE, NoBefore))

\* OwnedImage::new of 1x1 and then scale
ScaleVk ==
    /\ pc = "resolve"
    /\ call = NoCall
    /\ \E n \in new_internal(vk_device, Size(1, 1), passes[1].format, 1) :
          /\ n.ok
          /\ \E r \in OwnedImage_scale(n.image, n.device, passes[1].scaling,
                                       passes[1].format, viewport.output.size,
                                       source, FALSE, "None") :
                VkOutcome(r, Call("scale",
                                  scale(passes[1].scaling, source.image.size,
                                        viewport.output.size),
                                  VkFormatOf("R8G8B8A8Unorm"), FALSE, NoBefore))

NextScale ==
    \/ ScaleGl3
    \/ ScaleVk

SpecScale == InitScale /\ [][NextScale]_vars

(***************************************************************************)
(* init_passes, for the uniform bindings alone, on the OpenGL 4.6 and on   *)
(* the Vulkan runtime: the passes of a preset are reflected and a          *)
(* FilterPass is built of each.  A reflection declares members of three    *)
(* kinds, each with its id and its offset in the UBO or in the push        *)
(* constant block: parameters by name, semantic variables (variable_meta;  *)
(* the Vulkan runtime reads the field as unique_meta) and texture sizes by *)
(* semantic.  A binding key is <<kind, id or semantic>>.                    *)
(***************************************************************************)
\* what reflect.reflect(index, semantics) can return for a pass
ReflectionMetas ==
    LET Member(id, block, at) == [id |-> id, offset |-> [block |-> block, at |-> at]]
        At(id) == CASE id = "p" -> 0 [] id = "q" -> 4 [] id = "MVP" -> 16
                    [] OTHER -> 80
    IN  { [ parameter_meta |-> [n \in ps |-> Member(n, block, At(n))],
            variable_meta |-> [v \in vs |-> Member(v, block, At(v))],
            texture_size_meta |-> [t \in ts |-> Member(t \o "Size", block, At(t))] ]
          : ps \in SUBSET {"p", "q"}, vs \in SUBSET {"MVP"},
            ts \in SUBSET {"Original"}, block \in {"Ubo", "PushConstant"} }

InitBindings ==
    /\ \E n \in 1..MaxPasses : \E metas \in [1..n -> ReflectionMetas] :
          preset = [ shaders |-> [i \in 1..n |-> [reflect |-> metas[i]]],
                     textures |-> <<>>, shader_count |-> n ]
    /\ passes = <<>>
    /\ passes_enabled = 0
    /\ NothingApart
    /\ gl_driver = "reuse"
    /\ gl_pixel_unpack = 0
    /\ gl_faults = 0
    /\ gl_framebuffer = 0
    /\ gl_textures = {}
    /\ gl_objects = NoObjects
    /\ luts = <<>>
    /\ output_framebuffers = <<>>
    /\ feedback_framebuffers = <<>>
    /\ history_framebuffers = <<>>
    /\ output_textures = <<>>
    /\ feedback_textures = <<>>
    /\ history_textures = <<>>
    /\ pc = "init_passes"
    /\ index = 1
    /\ viewport = NoArgs.viewport
    /\ input = NoArgs.input
    /\ original = NoArgs.input
    /\ source = NoArgs.input
    /\ result = "None"
    /\ log = EmptyLog

\* a Vulkan init_passes whose passes bind their parameters alone
InitPassVkParametersOnly ==
    /\ pc = "init_passes"
    /\ index <= Len(preset.shaders)
    /\ \A i \in 1..Len(passes) : "program" \notin DOMAIN passes[i]
    /\ LET meta == preset.shaders[index].reflect
           keys == { <<"Parameter", meta.parameter_meta[n].id>>
                       : n \in DOMAIN meta.parameter_meta }
           param(k) == meta.parameter_meta[
                           CHOOSE n \in DOMAIN meta.parameter_meta :
                               meta.parameter_meta[n].id = k[2]]
       IN  /\ passes' = Append(passes,
                               [ uniform_bindings |->
                                     [k \in keys |-> param(k).offset] ])
           /\ index' = index + 1
           /\ UNCHANGED << pc, result >>
    /\ UNCHANGED << apart, gl, gl_driver, gl_pixel_unpack, gl_objects, preset,
                    passes_enabled, luts, framebuffers, textures, locals, log >>

\* one iteration of the loop of FilterChain::init_passes of the OpenGL 4.6
\* runtime (lines 290-435): the pass does not reflect, or its FilterPass is
\* built; after the last pass init_passes returns the passes
InitPassGl46 ==
    /\ pc = "init_passes"
    /\ index <= Len(preset.shaders)
    /\ \A i \in 1..Len(passes) : "program" \in DOMAIN passes[i]
    /\ \/ \* reflect fails (line 291)
          /\ passes' = <<>>
          /\ index' = 0
          /\ pc' = "failed"
          /\ result' = "Err"
          /\ gl_objects' = DropPasses(gl_objects, Len(passes))
       \/ LET meta == preset.shaders[index].reflect
              keys == { <<"Parameter", meta.parameter_meta[n].id>>
                          : n \in DOMAIN meta.parameter_meta }
                      \cup { <<"SemanticVariable", v>>
                             : v \in DOMAIN meta.variable_meta }
                      \cup { <<"TextureSize", t>>
                             : t \in DOMAIN meta.texture_size_meta }
              param(k) ==
                  CASE k[1] = "Parameter" ->
                         meta.parameter_meta[
                             CHOOSE n \in DOMAIN meta.parameter_meta :
                                 meta.parameter_meta[n].id = k[2]]
                    [] k[1] = "SemanticVariable" -> meta.variable_meta[k[2]]
                    [] OTHER -> meta.texture_size_meta[k[2]]
              \* reflect_uniform_location (lines 54-79): the location of
              \* the member of that id in the block its offset is in
              location(m) == [block |-> m.offset.block, id |-> m.id]
          IN  /\ passes' = Append(passes,
                                  [ reflection |-> meta,
                                    program |-> index,
                                    uniform_bindings |->
                                        [k \in keys |->
                                            << location(param(k)),
                                               param(k).offset >>] ])
              /\ gl_objects' = [gl_objects EXCEPT !.programs = @ \cup {index}]
              /\ index' = index + 1
              /\ IF index = Len(preset.shaders)
                 THEN pc' = "loaded" /\ result' = "Ok"
                 ELSE UNCHANGED << pc, result >>
    /\ UNCHANGED << apart, gl, gl_driver, gl_pixel_unpack, preset,
                    passes_enabled, luts, framebuffers, textures, locals, log >>

\* one iteration of the loop of FilterChainVulkan::init_passes (lines
\* 158-218)
InitPassVk ==
    /\ pc = "init_passes"
    /\ index <= Len(preset.shaders)
    /\ \A i \in 1..Len(passes) : "program" \notin DOMAIN passes[i]
    /\ \/ \* reflect fails (line 159)
          /\ passes' = <<>>
          /\ index' = 0
          /\ pc' = "failed"
          /\ result' = "Err"
       \/ LET meta == preset.shaders[index].reflect
              keys == { <<"Parameter", meta.parameter_meta[n].id>>
                          : n \in DOMAIN meta.parameter_meta }
                      \cup { <<"SemanticVariable", v>>
                             : v \in DOMAIN meta.variable_meta }
                      \cup { <<"TextureSize", t>>
                             : t \in DOMAIN meta.texture_size_meta }
              param(k) ==
                  CASE k[1] = "Parameter" ->
                         meta.parameter_meta[
                             CHOOSE n \in DOMAIN meta.parameter_meta :
                                 meta.parameter_meta[n].id = k[2]]
                    \* reflection.meta.unique_meta (line 184)
                    [] k[1] = "SemanticVariable" -> meta.variable_meta[k[2]]
                    [] OTHER -> meta.texture_size_meta[k[2]]
          IN  /\ passes' = Append(passes,
                                  [ uniform_bindings |->
                                        [k \in keys |-> param(k).offset] ])
              /\ index' = index + 1
              /\ UNCHANGED << pc, result >>
    /\ UNCHANGED << apart, gl, gl_driver, gl_pixel_unpack, gl_objects, preset,
                    passes_enabled, luts, framebuffers, textures, locals, log >>

\* the end of FilterChainVulkan::init_passes: todo!() (line 220) panics and
\* the passes built are dropped
InitPassesVkEnd ==
    /\ pc = "init_passes"
    /\ index > Len(preset.shaders)
    /\ passes' = <<>>
    /\ index' = 0
    /\ pc' = "panicked"
    /\ result' = "Panic"
    /\ UNCHANGED << apart, gl, gl_driver, gl_pixel_unpack, gl_objects, preset,
                    passes_enabled, luts, framebuffers, textures, locals, log >>

NextBindings ==
    \/ InitPassGl46
    \/ InitPassVk
    \/ InitPassesVkEnd

SpecBindings == InitBindings /\ [][NextBindings]_vars

(***************************************************************************)
(* Properties of construction.                                             *)
(***************************************************************************)
\* the OriginalHistory indices the passes reference, as texture or as size
HistoryIndices(filters) ==
    UNION { filters[i].history_textures \cup filters[i].history_sizes
            : i \in 1..Len(filters) }

\* largest referenced index + 1; history is off when that is at most 1
DeepestHistory(filters) ==
    LET ks == HistoryIndices(filters)
        h == IF ks = {} THEN 0 ELSE 1 + CHOOSE k \in ks : \A j \in ks : j <= k
    IN  IF h <= 1 THEN 0 ELSE h

\* C4: a constructed chain has as many history framebuffers as the largest
\* OriginalHistory index any pass references, plus one (none when that is
\* at most 1): a single pass referencing only OriginalHistory[2] gets 3.
HistoryDepth ==
    pc = "loaded" => Len(history_framebuffers) = DeepestHistory(passes)

\* C10: when load_from_preset fails no chain is returned and every GL object
\* the earlier steps created has been released.
FailedLoadReleasesAll ==
    pc = "failed" =>
        /\ passes = <<>> /\ luts = <<>>
        /\ gl_textures = {}
        /\ gl_objects = NoObjects

\* C11: load_from_preset ends with a chain or with an error value returned
\* to its caller; it never panics, a program that does not link included.
LoadNeverPanics ==
    pc # "panicked" /\ result # "Panic"

\* C17: in a loaded chain passes_enabled is at most the number of loaded
\* passes, whatever shader_count the preset carries.
PassesEnabledInBounds ==
    pc = "loaded" => passes_enabled <= Len(passes)

(***************************************************************************)
(* Properties of the resize step.                                          *)
(***************************************************************************)
\* the frame call in progress has finished its resize loop, no pass is drawn
Resized == pc = "draw" /\ index = 1

\* size of the source of pass i when each pass is sized from the pass before it
ThreadedSourceSize(i) ==
    IF i = 1 THEN input.size ELSE output_framebuffers[i - 1].size

\* C1: after the resize step the output framebuffer of every enabled pass i
\* has the size its scaling gives for the viewport and a source that is the
\* input for the first pass and the just-resized output of pass i-1 otherwise.
SizeAgreement ==
    Resized =>
        \A i \in 1..passes_enabled :
            output_framebuffers[i].size =
                scale(passes[i].scaling, ThreadedSourceSize(i), viewport.output.size)

(***************************************************************************)
(* Properties of the textures a pass can sample.                           *)
(***************************************************************************)
\* the content a framebuffer holds when pass i drew into it one frame ago
DrawnLastFrame(i) ==
    [NoContent EXCEPT !.kind = "draw", !.pass = i, !.age = 1]

\* C2: on every frame after a successful one, during the draws, the image
\* feedback_textures[i] views is, for every enabled pass i (the last one
\* included), the render target pass i was drawn into on the frame before.
FeedbackLag ==
    (pc = "draw" /\ result = "Ok") =>
        \A i \in 1..passes_enabled :
            \E fb \in Range(output_framebuffers) \cup Range(feedback_framebuffers) :
                /\ fb.image = feedback_textures[i].image.handle
                /\ fb.content = DrawnLastFrame(i)

\* a step in which a frame call returns Ok
FrameReturnsOk == pc' = "idle" /\ result' = "Ok"

\* C3: with history enabled every successful frame call rotates the history
\* by one: the new front holds a copy of the call's input with the input's
\* size and format, and entry k is the framebuffer that was entry k-1.
HistoryRotation ==
    [][ (FrameReturnsOk /\ history_framebuffers # <<>>) =>
          /\ Len(history_framebuffers') = Len(history_framebuffers)
          /\ history_framebuffers'[1].content.kind = "copy"
          /\ history_framebuffers'[1].content.input = input.handle
          /\ history_framebuffers'[1].backing =
                 [alloc |-> TRUE, size |-> input.size, format |-> input.format]
          /\ \A k \in 2..Len(history_framebuffers) :
                 history_framebuffers'[k] = history_framebuffers[k - 1] ]_vars

\* the view refers to the texture the framebuffer owns now, and that texture
\* exists
ViewsLiveImage(view, fb) ==
    view.image.handle = fb.image /\ fb.image \in gl_textures

\* C5: at every draw the views in feedback_textures, in history_textures
\* and in output_textures of the passes already drawn refer to the live
\* texture of their framebuffer, never to one a resize has deleted.
NoDanglingView ==
    pc = "draw" =>
        /\ \A i \in 1..passes_enabled :
               ViewsLiveImage(feedback_textures[i], feedback_framebuffers[i])
        /\ \A k \in 1..Len(history_textures) :
               ViewsLiveImage(history_textures[k], history_framebuffers[k])
        /\ \A j \in 1..(index - 1) :
               ViewsLiveImage(output_textures[j], output_framebuffers[j])

(***************************************************************************)
(* Properties of the effects of one frame call.                            *)
(***************************************************************************)
\* C6: with passes_enabled = 0 a frame call returns Ok and has no effect,
\* whatever its options: no history framebuffer is cleared or rotated, no
\* pair is swapped, nothing is resized, nothing is drawn.
DisabledFrameNoEffect ==
    [][ (pc = "idle" /\ passes_enabled = 0) =>
          /\ result' = "Ok"
          /\ log' = EmptyLog
          /\ UNCHANGED << framebuffers, textures, gl >> ]_vars

\* C7: with passes_enabled = k below the number of loaded passes a frame
\* call issues exactly k draws and its swap leaves every output and
\* feedback framebuffer of index above k in its slot.
EnabledPrefixOnly ==
    [][ (pc = "draw" /\ FrameReturnsOk /\ passes_enabled < Len(passes)) =>
          /\ Len(log'.draws) = passes_enabled
          /\ \A i \in (passes_enabled + 1)..Len(passes) :
                 /\ output_framebuffers'[i] = output_framebuffers[i]
                 /\ feedback_framebuffers'[i] = feedback_framebuffers[i] ]_vars

\* C8: whenever a frame call has returned, framebuffer 0 is bound.
DefaultFramebufferBound ==
    (pc = "idle" /\ result # "None") => gl_framebuffer = 0

\* C9: a framebuffer whose allocation failed in a frame call is allocated
\* again by the next call: once the resize step of a call has succeeded no
\* enabled framebuffer is left over from a failed allocation.
ResizeRetried ==
    Resized =>
        \A i \in 1..passes_enabled :
            /\ ~output_framebuffers[i].init_failed
            /\ ~feedback_framebuffers[i].init_failed



(***************************************************************************)
(* Properties of a managed image used on its own.                          *)
(***************************************************************************)
\* the step is a scale or copy_from whose arguments resolve to the size and
\* the format the image has
ResizeToCurrent ==
    /\ call'.op \in {"scale", "copy_from"}
    /\ \/ /\ HasFramebuffer
          /\ call'.size = framebuffer.size
          /\ call'.format = framebuffer.format
       \/ /\ HasImage
          /\ call'.size = vk_image.size
          /\ call'.format = vk_image.format

\* the step creates and deletes no image, view or framebuffer object
SameHandles ==
    /\ framebuffer'.image = framebuffer.image
    /\ framebuffer'.handle = framebuffer.handle
    /\ vk_image'.image = vk_image.image
    /\ vk_image'.image_view = vk_image.image_view
    /\ UNCHANGED << gl_textures, gl_objects, vk_device >>

\* the mipmap flag of a Vulkan scale asks for what the image has
MipmapAgrees ==
    HasImage => (call'.mipmap <=> vk_image.max_miplevels # 1)

\* C12 as stated: a scale or copy whose arguments resolve to the current
\* size and format changes no GPU handle, on GL and on Vulkan.
ResizeIdempotentAsStated ==
    [][ResizeToCurrent => SameHandles]_vars

\* C12: a scale or copy whose arguments resolve to the current size and
\* format, and on Vulkan whose mipmap flag asks for the mip chain the image
\* has, changes no GPU handle.
ResizeIdempotent ==
    [][(ResizeToCurrent /\ MipmapAgrees) => SameHandles]_vars

\* a scale has found an image of the size, format and mip chain it asks for
\* and has returned with the image it found: on Vulkan, on GL
ResizedToCurrent ==
    /\ call.op = "scale"
    /\ result = "Ok"
    /\ call.size = call.before.size
    /\ call.format = call.before.format
    /\ call.before.image # 0
    /\ \/ /\ HasImage
          /\ call.mipmap <=> call.before.max_levels # 1
          /\ vk_image.image = call.before.image
       \/ /\ HasFramebuffer
          /\ ~framebuffer.is_raw
          /\ framebuffer.image = call.before.image

\* the last call on a framebuffer of its own allocated or kept an image and
\* returned Ok
AllocatedOk ==
    /\ HasFramebuffer
    /\ ~framebuffer.is_raw
    /\ call.op \in {"scale", "init", "copy_from"}
    /\ result = "Ok"

\* C13: after a successful scale, init or copy_from the stored size and
\* format are the size and format of the texture storage really allocated.
StoredIsBacking ==
    AllocatedOk =>
        /\ framebuffer.backing.alloc
        /\ framebuffer.backing.size = framebuffer.size
        /\ framebuffer.backing.format = framebuffer.format

\* C14: the size a managed image stores is at least 1 in width and in
\* height, on GL and on Vulkan.
SizeAtLeastOne ==
    /\ HasFramebuffer =>
          framebuffer.size.width >= 1 /\ framebuffer.size.height >= 1
    /\ HasImage =>
          vk_image.size.width >= 1 /\ vk_image.size.height >= 1

\* C15: the level count of a managed image is at least 1 and at most the
\* larger of its level limit and the full mip chain of its size.
LevelsInRange ==
    /\ HasFramebuffer =>
          /\ framebuffer.mip_levels >= 1
          /\ framebuffer.mip_levels <=
                 Max(framebuffer.max_levels, calc_miplevel(framebuffer.size))
    /\ HasImage =>
          /\ vk_image.levels >= 1
          /\ vk_image.levels <=
                 Max(vk_image.max_miplevels, calc_miplevel(vk_image.size))

\* C16: init never returns Ok for a framebuffer that is not complete.
InitOkIsComplete ==
    ( /\ HasFramebuffer
      /\ ~framebuffer.is_raw
      /\ call.op = "init"
      /\ result = "Ok" ) => framebuffer.complete

\* C19: a framebuffer made by new_from_raw is borrowed: scale and init leave
\* its image, size and format as they are, and no step, its drop included,
\* deletes the caller's texture or framebuffer object.
RawIsBorrowed ==
    [][ framebuffer.is_raw =>
          /\ call'.op \in {"scale", "init"} =>
                /\ framebuffer'.image = framebuffer.image
                /\ framebuffer'.size = framebuffer.size
                /\ framebuffer'.format = framebuffer.format
          /\ RawTexture \in gl_textures'
          /\ RawHandle \in gl_objects'.framebuffers ]_vars


(***************************************************************************)
(* Properties of the frame count.                                          *)
(***************************************************************************)
\* C18: the frame count handed to the draw of a pass is count modulo the
\* pass's frame_count_mod when that is above zero, and count itself
\* otherwise, for a count of 64 bits.
FrameCountHanded ==
    call.op = "frame" =>
        U64(0, frame_count) =
            IF passes[passes_enabled].frame_count_mod > 0
            THEN CountMod(count, passes[passes_enabled].frame_count_mod)
            ELSE count


\* the ring buffers pass i owns
RingOf(i) == { b \in gl_objects.buffers : b[1] = i }

\* two frame counters fewer than a ring apart (Counts holds no pair that is
\* near across a multiple of 2^32)
FewerThanRingApart(c1, c2) ==
    /\ c1 # c2
    /\ c1.hi = c2.hi
    /\ c1.lo - c2.lo < UboRingSize
    /\ c2.lo - c1.lo < UboRingSize

DrawsInOrder ==
    [][ (pc = "draw" /\ FrameReturnsOk) =>
          LET d == log'.draws
              k == passes_enabled
          IN  /\ Len(d) = k
              /\ \A i \in 1..k : d[i].pass = i
              /\ \A i \in 1..(k - 1) :
                    /\ d[i].target = output_framebuffers[i].handle
                    /\ ~d[i].raw
                    /\ d[i].mvp = "None"
                    /\ d[i].x = 0 /\ d[i].y = 0
              /\ d[k].target = viewport.output.handle
              /\ d[k].raw
              /\ d[k].mvp = viewport.mvp
              /\ d[k].x = viewport.x /\ d[k].y = viewport.y ]_vars

\* a frame of two passes has returned Ok; the second pass was drawn into the
\* viewport at its offset with the caller's matrix, the first was not
TwoPassesDrawn ==
    /\ pc = "idle"
    /\ result = "Ok"
    /\ Len(log.draws) = 2
    /\ log.draws[1].mvp = "None" /\ log.draws[1].x = 0 /\ ~log.draws[1].raw
    /\ log.draws[2].mvp = "Some" /\ log.draws[2].x = 1 /\ log.draws[2].y = 2
    /\ log.draws[2].raw


\* the view of framebuffer fb with the filter and the wrap mode of pass p
ViewAs(fb, p) ==
    [ image |-> [handle |-> fb.image, format |-> fb.format, size |-> fb.size],
      filter |-> p.filter, mip_filter |-> p.filter, wrap_mode |-> p.wrap_mode ]

\* the caller's input with the filter and the wrap mode of the first pass
InputView ==
    [ image |-> input, filter |-> passes[1].filter,
      mip_filter |-> passes[1].filter, wrap_mode |-> passes[1].wrap_mode ]

LastSourceOwnSampling ==
    (pc = "idle" /\ result = "Ok" /\ passes_enabled >= 1
                 /\ Len(log.draws) = passes_enabled) =>
        LET last == log.draws[passes_enabled].source
            pass == passes[passes_enabled]
        IN  /\ last.filter = pass.filter
            /\ last.mip_filter = pass.filter
            /\ last.wrap_mode = pass.wrap_mode


\* C24: after the feedback-view update of frame, feedback_textures[i] views
\* feedback framebuffer i with the filter and the wrap mode of pass i, for
\* every enabled pass i.
FeedbackViewSampling ==
    (pc = "scale" /\ index = 1) =>
        \A i \in 1..passes_enabled :
            /\ feedback_textures[i].image.handle = feedback_framebuffers[i].image
            /\ feedback_textures[i].filter = passes[i].filter
            /\ feedback_textures[i].mip_filter = passes[i].filter
            /\ feedback_textures[i].wrap_mode = passes[i].wrap_mode


\* C25: a scale whose size is the size the image has but whose format is not
\* the format the image has allocates an image of the requested format.
FormatChangeReallocates ==
    ( /\ call.op = "scale"
      /\ result = "Ok"
      /\ call.size = call.before.size
      /\ call.format # call.before.format ) =>
        /\ (HasFramebuffer /\ ~framebuffer.is_raw) =>
               /\ framebuffer.format = call.format
               /\ framebuffer.backing.alloc
               /\ framebuffer.backing.format = call.format
        /\ HasImage => vk_image.format = call.format


\* C26: no managed image is allocated with the Unknown format (0): a
\* framebuffer that has a texture, and an OwnedImage, has another format.
NoUnknownFormat ==
    /\ (HasFramebuffer /\ framebuffer.image # 0) => framebuffer.format # 0
    /\ HasImage => vk_image.format # 0


\* C27: clear on a managed image writes opaque black (red, green and blue 0,
\* alpha 1) and has all four colour channels enabled for writing.
ClearsOpaqueBlack ==
    (call.op = "clear" /\ result = "Ok") =>
        \A i \in 1..Len(commands) :
            /\ commands[i].op \in {"ClearColor", "clear_color_image"} =>
                   commands[i].color = Rgba(0, 0, 0, 1)
            /\ commands[i].op = "ColorMask" =>
                   commands[i].mask = Rgba(TRUE, TRUE, TRUE, TRUE)


\* C28: after a successful copy_from the image has the size and the format of
\* the source it was copied from, and the copied extent (the source's size)
\* fits the image.
CopyResizesToSource ==
    (call.op = "copy_from" /\ result = "Ok") =>
        /\ HasFramebuffer =>
               /\ framebuffer.size = call.size
               /\ framebuffer.format = call.format
               /\ call.size.width <= framebuffer.backing.size.width
               /\ call.size.height <= framebuffer.backing.size.height
        /\ HasImage =>
               /\ vk_image.size = call.size
               /\ vk_image.format = call.format


\* C29: copy_from on an OwnedImage records a transition of the image from
\* UNDEFINED to TRANSFER_DST, then the copy into the image in TRANSFER_DST,
\* then a transition from TRANSFER_DST to SHADER_READ_ONLY, over the levels
\* the image has; when it returns every level is in SHADER_READ_ONLY.
CopyCommandOrder ==
    (call.op = "copy_from" /\ HasImage) =>
        /\ Len(commands) = 3
        /\ commands[1].op = "barrier"
        /\ commands[1].old_layout = "UNDEFINED"
        /\ commands[1].new_layout = "TRANSFER_DST_OPTIMAL"
        /\ commands[1].levels = 0..(vk_image.levels - 1)
        /\ commands[2].op = "copy_image"
        /\ commands[2].dst_layout = "TRANSFER_DST_OPTIMAL"
        /\ vk_image.levels >= 1 =>
               commands[2].dst_found = "TRANSFER_DST_OPTIMAL"
        /\ commands[3].op = "barrier"
        /\ commands[3].old_layout = "TRANSFER_DST_OPTIMAL"
        /\ commands[3].new_layout = "SHADER_READ_ONLY_OPTIMAL"
        /\ commands[3].levels = 0..(vk_image.levels - 1)
        /\ commands[3].found \subseteq {"TRANSFER_DST_OPTIMAL"}
        /\ \A l \in 1..Len(vk_image.layout) :
               vk_image.layout[l] = "SHADER_READ_ONLY_OPTIMAL"

\* a copy into an image of three mip levels, one of which was in another
\* layout than UNDEFINED before
CopiedIntoMipmapped ==
    /\ call.op = "copy_from"
    /\ HasImage
    /\ vk_image.levels = 3
    /\ commands[1].found # {"UNDEFINED"}
    /\ commands[2].dst_found = "TRANSFER_DST_OPTIMAL"
    /\ vk_image.layout[3] = "SHADER_READ_ONLY_OPTIMAL"


\* the blits among the commands, in the order they were recorded
Blits == SelectSeq(commands, LAMBDA c : c.op = "blit_image")

\* C30: generate_mipmaps on an image with at least one mip level is
\* layout-consistent: every barrier names at least one level and its old
\* layout is UNDEFINED or the layout its levels are in, every blit names the
\* layouts its two levels are in, level i + 1 is written from level i once
\* for i = 0..levels-2 in increasing order, and at the end every level is in
\* SHADER_READ_ONLY.
MipmapsLayoutConsistent ==
    (call.op = "generate_mipmaps" /\ vk_image.levels >= 1) =>
        /\ \A i \in 1..Len(commands) :
              /\ commands[i].op = "barrier" =>
                     /\ commands[i].levels # {}
                     /\ \/ commands[i].old_layout = "UNDEFINED"
                        \/ commands[i].found = {commands[i].old_layout}
              /\ commands[i].op = "blit_image" =>
                     /\ commands[i].src_found = commands[i].src_layout
                     /\ commands[i].dst_found = commands[i].dst_layout
        /\ Len(Blits) = vk_image.levels - 1
        /\ \A i \in 1..Len(Blits) :
              Blits[i].src_level = i - 1 /\ Blits[i].dst_level = i
        /\ \A l \in 1..Len(vk_image.layout) :
              vk_image.layout[l] = "SHADER_READ_ONLY_OPTIMAL"


(***************************************************************************)
(* Properties of the slots of a chain over any number of frame calls.      *)
(***************************************************************************)
\* C31: the history holds as many framebuffers as the chain was constructed
\* with, and as many as there are history textures, whatever the frame
\* calls so far returned.
HistoryKeepsLength ==
    /\ Len(history_framebuffers) = Len(init_history_framebuffers(passes))
    /\ Len(history_framebuffers) = Len(history_textures)


\* the framebuffer object in each output, feedback and history slot
OutputObjects ==
    [i \in 1..Len(output_framebuffers) |-> output_framebuffers[i].handle]
FeedbackObjects ==
    [i \in 1..Len(feedback_framebuffers) |-> feedback_framebuffers[i].handle]
HistoryObjects ==
    [k \in 1..Len(history_framebuffers) |-> history_framebuffers[k].handle]

\* no framebuffer object is in two slots, and slots i hold the two objects
\* they were constructed with
SlotsPaired ==
    LET all == OutputObjects \o FeedbackObjects \o HistoryObjects
        n   == Len(passes)
    IN  /\ \A i, j \in 1..Len(all) : i # j => all[i] # all[j]
        /\ Len(OutputObjects) = n /\ Len(FeedbackObjects) = n
        /\ \A i \in 1..n :
              {OutputObjects[i], FeedbackObjects[i]}
                  = {OutputHandle(i), FeedbackHandle(n, i)}

\* a step exchanges the objects of every output slot and its feedback slot
SlotsExchanged ==
    /\ OutputObjects' = FeedbackObjects
    /\ FeedbackObjects' = OutputObjects

\* C32: a successful frame with an enabled pass exchanges output_images[i]
\* and feedback_images[i] for every i, and no step before the end of a frame
\* moves a framebuffer object to another slot; in every state no object is
\* in two slots and slots i hold the two objects they were constructed
\* with.  Two successful frames in a row are two exchanges, which put every
\* object back.
PairwiseSwap ==
    /\ SlotsPaired
    /\ [][ /\ SlotsPaired'
           /\ (pc = "draw" /\ FrameReturnsOk) => SlotsExchanged
           /\ \/ SlotsExchanged /\ pc = "draw" /\ pc' = "idle"
              \/ OutputObjects' = OutputObjects
                    /\ FeedbackObjects' = FeedbackObjects ]_vars

\* two frames have ended with an exchange: both framebuffer objects of
\* slot 1 have been drawn to and each is in the slot it was constructed in
SwappedBack ==
    /\ pc = "idle"
    /\ result = "Ok"
    /\ Len(passes) = 2
    /\ passes_enabled = 2
    /\ OutputObjects[1] = OutputHandle(1)
    /\ OutputObjects[2] = OutputHandle(2)
    /\ output_framebuffers[1].content.kind = "draw"
    /\ feedback_framebuffers[1].content.kind = "draw"


\* C33: after the resize step of a frame every enabled pass's output and
\* feedback image owns an allocated backing image (a texture name other
\* than 0, at least one level, the format of the pass) of the size it
\* stores, a size of 1x1 included.
ResizedOwnsBacking ==
    (pc = "draw" /\ index = 1) =>
        \A i \in 1..passes_enabled :
            \A fb \in {output_framebuffers[i], feedback_framebuffers[i]} :
                /\ fb.image # 0
                /\ fb.mip_levels >= 1
                /\ fb.backing.alloc
                /\ fb.backing.size = fb.size
                /\ fb.backing.format =
                       GLenumOf(IF passes[i].format = "Unknown"
                                THEN "R8G8B8A8Unorm" ELSE passes[i].format)


\* round(f * axis), at least 1
Rounded(s, axis) == Max(RoundMul(s.factor, axis), 1)

\* the size the scaled image stores
ScaledSize ==
    IF framebuffer # NoFramebuffer THEN framebuffer.size ELSE vk_image.size

\* C34: on an axis whose rule is Original(f) the size a successful scale
\* gives the image is round(f * original_axis), whatever the source and the
\* viewport of the call.
OriginalRuleBySizeOfOriginal ==
    (pc = "resolve" /\ call.op = "scale" /\ result = "Ok") =>
        /\ passes[1].scaling.x.scale_type = "Original" =>
               ScaledSize.width
                   = Rounded(passes[1].scaling.x, original.image.size.width)
        /\ passes[1].scaling.y.scale_type = "Original" =>
               ScaledSize.height
                   = Rounded(passes[1].scaling.y, original.image.size.height)


\* C35: after the resize step the output image of an enabled pass that has
\* a backing image has 1 + floor(log2(max(w, h))) levels when the mipmap
\* flag of the pass is set, and 1 level when it is not.
LevelsFollowMipmapFlag ==
    (pc = "draw" /\ index = 1) =>
        \A i \in 1..passes_enabled :
            LET fb == output_framebuffers[i] IN
            fb.backing.alloc =>
                fb.mip_levels = IF passes[i].mipmap
                                THEN calc_miplevel(fb.backing.size) ELSE 1


(***************************************************************************)
(* Properties of the table of lookup textures load_luts builds.            *)
(***************************************************************************)
\* 1 + floor(log2(max(w, h))), by its defining inequality
mipCeil(size) ==
    CHOOSE l \in 1..31 : /\ 2^(l - 1) <= Max(size.width, size.height)
                         /\ Max(size.width, size.height) < 2^l

\* load_luts has returned Ok: the chain is being put together around the
\* table, or has been
LutsBuilt == pc \in {"init_history", "loaded"}

\* C36: the table load_luts returns has exactly one entry per texture
\* config, keyed by the position of the config in the list; the entry is a
\* texture of format RGBA8 of a decoded size with the filter (also as mip
\* filter) and the wrap mode of its config; its storage has mipCeil(size)
\* levels if the config asks for mipmaps and 1 otherwise, and its mip chain
\* was generated exactly when it has more than one level.
LutsFollowConfigs ==
    LutsBuilt =>
        /\ DOMAIN luts = DOMAIN preset.textures
        /\ \A i \in DOMAIN luts :
             LET lut == luts[i]
                 config == preset.textures[i]
             IN /\ lut.texture.image.handle = LutName(i)
                /\ lut.texture.image.format = GL_RGBA8
                /\ lut.texture.image.size \in LutSizes
                /\ lut.texture.filter = config.filter_mode
                /\ lut.texture.mip_filter = config.filter_mode
                /\ lut.texture.wrap_mode = config.wrap_mode
                /\ lut.levels = IF config.mipmap
                                THEN mipCeil(lut.texture.image.size)
                                ELSE 1
                /\ lut.generated <=> lut.levels > 1

\* a table of two entries was built, of a list whose first config alone asks
\* for mipmaps, from images of one pixel: neither mip chain was generated
LutsOfOnePixel ==
    /\ pc = "loaded"
    /\ Len(luts) = 2
    /\ preset.textures[1].mipmap /\ ~preset.textures[2].mipmap
    /\ luts[1].texture.image.size = Size(1, 1)
    /\ ~luts[1].generated


\* C38: load_luts leaves the caller's binding of GL_PIXEL_UNPACK_BUFFER as
\* it found it: whenever load_luts returns, with Ok or with the error of an
\* image that does not decode, the buffer bound is the one that was bound
\* when it was entered.
LoadLutsRestoresPixelUnpack ==
    [][pc = "load_luts" => gl_pixel_unpack' = gl_pixel_unpack]_vars


(***************************************************************************)
(* Properties of the uniform bindings of a pass.                           *)
(***************************************************************************)
\* the members the reflection of a pass declares, each as the pair of its
\* binding key and its offset
DeclaredMembers(meta) ==
    { << <<"Parameter", n>>, meta.parameter_meta[n].offset >>
        : n \in DOMAIN meta.parameter_meta }
    \cup { << <<"SemanticVariable", v>>, meta.variable_meta[v].offset >>
           : v \in DOMAIN meta.variable_meta }
    \cup { << <<"TextureSize", t>>, meta.texture_size_meta[t].offset >>
           : t \in DOMAIN meta.texture_size_meta }

\* the entries of the uniform_bindings of a built pass, each as the pair of
\* its key and the offset it carries: the entry itself on Vulkan, the second
\* half of (location, offset) on OpenGL
BoundMembers(pass) ==
    { << k, IF "program" \in DOMAIN pass
            THEN pass.uniform_bindings[k][2]
            ELSE pass.uniform_bindings[k] >>
      : k \in DOMAIN pass.uniform_bindings }

\* C37: on both backends the uniform_bindings of every pass built at
\* construction has exactly one entry for each parameter, each semantic
\* variable and each texture size member the reflection of that pass
\* declares, no other entry, and each entry carries the offset the
\* reflection declares.
BindingsAsReflected ==
    \A i \in 1..Len(passes) :
        LET meta == preset.shaders[i].reflect
        IN  /\ BoundMembers(passes[i]) = DeclaredMembers(meta)
            /\ Cardinality(DOMAIN passes[i].uniform_bindings)
                 = Cardinality(DOMAIN meta.parameter_meta)
                   + Cardinality(DOMAIN meta.variable_meta)
                   + Cardinality(DOMAIN meta.texture_size_meta)

\* a Vulkan chain got as far as two passes built, the first of a reflection
\* that declares two parameters, a semantic variable and a texture size in
\* the push constant block, the second of one that declares nothing
TwoPassesBound ==
    /\ pc = "init_passes"
    /\ Len(passes) = 2
    /\ "program" \notin DOMAIN passes[1]
    /\ Cardinality(DOMAIN passes[1].uniform_bindings) = 4
    /\ passes[1].uniform_bindings[<<"TextureSize", "Original">>].block
         = "PushConstant"
    /\ DOMAIN passes[2].uniform_bindings = {}

=============================================================================
